---- MODULE Spec2Model ----
(***************************************************************************)
(* A model of the document-acquisition core of the gov-pdf-download        *)
(* scrapers: the tracking file, download_single_pdf and its retry loop,    *)
(* download_with_playwright and the engine loop of army-scrape.py, the     *)
(* strategy chain of gao-scrape.py, and two scraper instances sharing one  *)
(* tracking file.                                                          *)
(*                                                                         *)
(* Strings are sequences of one-character strings, so that the filename    *)
(* derivation and the substring tests are computed as the code computes    *)
(* them.                                                                   *)
(***************************************************************************)
EXTENDS Integers, Sequences, FiniteSets, TLC

\* ------------------------------------------------------------------------
\* Bounds of the model
\* ------------------------------------------------------------------------

\* Number of work items the listing pages yield (a prefix of AllDocs).
NumDocs == 3

\* Number of times the scraper process is started (first run plus restarts).
MaxRuns == 2

\* ------------------------------------------------------------------------
\* Program constants
\* ------------------------------------------------------------------------

\* army-scrape.py:451  max_retries = 3
max_retries == 3

\* army-scrape.py:372  os.path.getsize(filepath) > 1000
MinSize == 1000

\* ------------------------------------------------------------------------
\* Strings
\* ------------------------------------------------------------------------

LowerLetters == <<"a","b","c","d","e","f","g","h","i","j","k","l","m","n","o","p","q","r","s","t","u","v","w","x","y","z">>

UpperLetters == <<"A","B","C","D","E","F","G","H","I","J","K","L","M","N","O","P","Q","R","S","T","U","V","W","X","Y","Z">>

DigitsUnderscore == <<"0","1","2","3","4","5","6","7","8","9","_">>

Range(s) == {s[i] : i \in DOMAIN s}

\* re: \w
IsWordChar(c) == c \in Range(LowerLetters) \cup Range(UpperLetters) \cup Range(DigitsUnderscore)

\* str.lower() on one character
LowerChar(c) ==
    IF c \in Range(UpperLetters)
    THEN LowerLetters[CHOOSE i \in DOMAIN UpperLetters : UpperLetters[i] = c]
    ELSE c

\* str.lower()
Lower(s) == [i \in DOMAIN s |-> LowerChar(s[i])]

\* str.endswith(suffix)
EndsWith(s, suffix) ==
    /\ Len(s) >= Len(suffix)
    /\ SubSeq(s, Len(s) - Len(suffix) + 1, Len(s)) = suffix

\* sub in s
Contains(s, sub) ==
    \E i \in 1..(Len(s) - Len(sub) + 1) : SubSeq(s, i, i + Len(sub) - 1) = sub

\* s.split(sep)[0] for a one-character separator
BeforeFirst(s, sep) ==
    IF sep \in Range(s)
    THEN SubSeq(s, 1, (CHOOSE i \in DOMAIN s : s[i] = sep /\ \A j \in 1..(i-1) : s[j] # sep) - 1)
    ELSE s

\* urlparse(url).path for a URL written without its scheme: the query and
\* the fragment are cut off
UrlPath(url) == BeforeFirst(BeforeFirst(url, "#"), "?")

\* os.path.basename
Basename(s) ==
    IF "/" \in Range(s)
    THEN SubSeq(s, (CHOOSE i \in DOMAIN s : s[i] = "/" /\ \A j \in (i+1)..Len(s) : s[j] # "/") + 1, Len(s))
    ELSE s

\* re.sub(r'[^\w\-\.]', '_', s)
CleanName(s) == [i \in DOMAIN s |-> IF IsWordChar(s[i]) \/ s[i] \in {"-", "."} THEN s[i] ELSE "_"]

DotPdf == <<".","p","d","f">>

\* ------------------------------------------------------------------------
\* Work items
\* ------------------------------------------------------------------------

\* army-scrape.py:67  self.problematic_urls
problematic_urls ==
    { <<"h","q","d","a","-","f","o","r","m","-","1","1","-","2","0","2","5","0","4","1","6",".","p","d","f">>,
      <<"H","Q","D","A","F","O","R","M","4","3","_","B","l","a","n","k",".","p","d","f">>,
      <<"a","p","i",".","a","r","m","y",".","m","i","l">> }

\* What the listing and publication pages yield, in discovery order: the PDF
\* link of each publication and the publication number of its row.
\*   h/a.pdf            "AR 1"
\*   h/B.PDF?v=2        ""
\*   api.army.mil/c.pdf "FM"
\*   h/d                "TC"
\*   h/e.pdf            ""
AllDocs ==
    << [url |-> <<"h","/","a",".","p","d","f">>, number |-> <<"A","R"," ","1">>],
       [url |-> <<"h","/","B",".","P","D","F","?","v","=","2">>, number |-> <<>>],
       [url |-> <<"a","p","i",".","a","r","m","y",".","m","i","l","/","c",".","p","d","f">>, number |-> <<"F","M">>],
       [url |-> <<"h","/","d">>, number |-> <<"T","C">>],
       [url |-> <<"h","/","e",".","p","d","f">>, number |-> <<>>] >>

Docs == SubSeq(AllDocs, 1, IF NumDocs <= Len(AllDocs) THEN NumDocs ELSE Len(AllDocs))

Urls == {Docs[i].url : i \in DOMAIN Docs}

\* any(prob_url in pdf_url for prob_url in self.problematic_urls)
IsProblematic(url) == \E p \in problematic_urls : Contains(url, p)

\* ArmyPublicationScraper.generate_filename
generate_filename(pdf_url, pub_number) ==
    LET number == CleanName(pub_number)
        base   == CleanName(BeforeFirst(Basename(UrlPath(pdf_url)), "?"))
        name   == IF EndsWith(Lower(base), DotPdf) THEN base ELSE base \o DotPdf
    IN  IF number # <<>> THEN number \o <<"_">> \o name ELSE name

FilePath(i) == generate_filename(Docs[i].url, Docs[i].number)

Paths == {FilePath(i) : i \in DOMAIN Docs}

\* ------------------------------------------------------------------------
\* Files and responses
\* ------------------------------------------------------------------------

NoFile == [size |-> -1, full |-> -1, pdf |-> FALSE]

\* A response body: its size, and whether it begins with the bytes %PDF.
\* The bodies a server sends: a PDF of exactly the threshold size, a larger
\* PDF, and a larger page that is no PDF (an HTML error page).
Blobs ==
    { [size |-> MinSize, pdf |-> TRUE],
      [size |-> 2 * MinSize, pdf |-> TRUE],
      [size |-> 2 * MinSize, pdf |-> FALSE] }

\* The size a file has when a write of a larger body is cut short after the
\* first flush.
PartialSize == MinSize + 1

\* os.path.exists(filepath) and os.path.getsize(filepath) > 1000
ExistsAndBig(f) == f # NoFile /\ f.size > MinSize

\* ------------------------------------------------------------------------
\* State
\* ------------------------------------------------------------------------

VARIABLES
    run,              \* number of process starts so far
    resumed,          \* the running process was started after a kill
    pc,               \* position of the process
    idx,              \* index in Docs of the item being processed
    downloaded_files, \* self.downloaded_files: url -> "absent" | "ok" | "failed"
    tracking_file,    \* content of download_tracking.json
    disk,             \* the output directory: path -> file
    retry,            \* loop variable of download_single_pdf
    success,          \* return value of download_with_playwright
    save_arg,         \* the success argument of the _save_tracking in progress
    wr,               \* position a write in progress continues at
    result,           \* return value of the last download_single_pdf: "True", "False"
    via,              \* the return statement the current or last call took
    net,              \* kinds of network operation of the current call's last round
    rounds,           \* download_with_playwright invocations of the current call
    fetched,          \* urls the running process started a download for
    persisted,        \* the records of the last completed write of the file
    g_pc,             \* GAO: position in download_pdf_properly
    g_fetch,          \* GAO: what the in-page fetch of this PDF yields
    g_route,          \* GAO: what route interception of this PDF would yield
    g_file,           \* GAO: the file at filepath
    g_tried,          \* GAO: the methods called, in order
    g_ret,            \* GAO: return value of download_pdf_properly
    p_pc,             \* per process sharing the output directory: its position
    p_files,          \* per process: its self.downloaded_files
    p_url,            \* per process: the URL of the _save_tracking in progress
    p_wrote           \* per process: the URLs it has recorded

VARIABLES
    w_pc,             \* per concurrent call of download_single_pdf: its position
    w_retry,          \* per call: the loop variable retry
    w_ok,             \* per call: the value download_with_playwright returned
    w_ret,            \* per call: its return value
    w_dl,             \* per call: the number of download_with_playwright calls
    w_rec,            \* the record of the URL in self.downloaded_files
    w_file,           \* the file at the output path of the URL
    n_item,           \* filename derivation: the work item (url, number)
    n_calls,          \* filename derivation: calls of generate_filename so far
    n_names,          \* filename derivation: the names derived so far
    e_pc,             \* engine loop: position of process_army_publications
    e_idx,            \* engine loop: index of the publication being processed
    e_faults,         \* engine loop: per publication, what goes wrong with it
    e_out,            \* engine loop: per publication, how its processing ended
    u_pc,             \* pagination: position of process_marine_publications
    u_start,          \* pagination: start_page
    u_max,            \* pagination: max_pages (0 stands for None)
    u_page,           \* pagination: current_page
    u_links,          \* pagination: the current page yielded publication links
    u_count,          \* pagination: listing pages requested so far
    c_pc,             \* crawl: position of WebScraperPDF.scrape
    c_graph,          \* crawl: url -> the links get_links finds on its page
    c_bad,            \* crawl: the urls extract_body_text fails on
    c_maxd,           \* crawl: self.max_depth
    c_base,           \* crawl: self.base_url
    c_queue,          \* crawl: queue
    c_visited,        \* crawl: self.visited_urls
    c_error,          \* crawl: self.error_urls
    c_cur,            \* crawl: the (url, depth) popped last
    c_content,        \* crawl: extract_body_text returned content
    c_fetches,        \* crawl: url -> number of driver.get(url) so far
    b_pc,             \* summary: position of scrape_bccampus_pdfs
    b_idx,            \* summary: index of the book being processed
    b_books,          \* summary: per book of the subject, what happens to it
    b_stats           \* summary: stats

armyVars == <<run, resumed, pc, idx, downloaded_files, disk, retry,
              success, save_arg, wr, result, via, net, rounds, fetched, persisted>>

gaoVars == <<g_pc, g_fetch, g_route, g_file, g_tried, g_ret>>

procVars == <<p_pc, p_files, p_url, p_wrote>>

wkVars == <<w_pc, w_retry, w_ok, w_ret, w_dl, w_rec, w_file>>

coreVars == <<armyVars, tracking_file, gaoVars, procVars>>

nmVars == <<n_item, n_calls, n_names>>

egVars == <<e_pc, e_idx, e_faults, e_out>>

pgVars == <<u_pc, u_start, u_max, u_page, u_links, u_count>>

crVars == <<c_pc, c_graph, c_bad, c_maxd, c_base, c_queue, c_visited, c_error, c_cur, c_content, c_fetches>>

smVars == <<b_pc, b_idx, b_books, b_stats>>

\* ---- variables of the further parts ----

VARIABLES
    d_kind,           \* which retry loop runs: "bccampus" or "army"
    d_pc,             \* position in the loop
    d_attempt,        \* the loop variable (attempt / retry), from 0
    d_resp,           \* what each round's request meets
    d_requests,       \* number of requests issued
    d_sleeps,         \* the asyncio.sleep arguments, in order
    d_saved,          \* save_path has been written
    d_ret,            \* the return value
    i_pc,             \* position of the strategy on the shared page
    i_item,           \* the work item being processed
    i_strategy,       \* the strategy of the current work item
    i_handlers,       \* handlers registered on the page: <<item, strategy>>
    v_pc,             \* position in VA download_single_pdf
    v_retry,          \* the loop variable retry
    v_outs,           \* what download_with_playwright does in each round
    v_curl,           \* what download_with_curl returns
    v_curls,          \* number of calls of download_with_curl
    v_rec,            \* downloaded_files[pdf_url]['success'], "none" when absent
    v_ret,            \* the return value
    h_files,          \* files of the output folder: <<title, k>>, k = 0 for title.ext, k > 0 for title_k.ext
    h_stats,          \* self.stats
    h_calls,          \* number of calls of download_file_direct
    h_last,           \* the title of the last call
    s_pc,             \* position in split_sheet
    s_total,          \* total_rows
    s_fit,            \* the largest number of rows whose file is within max_size_mb
    s_est,            \* estimated_chunk_size
    s_start,          \* start_row
    s_min,            \* min_chunk
    s_max,            \* max_chunk
    s_chunk,          \* chunk_size
    s_final,          \* final_output is not None
    s_temp,           \* rows <<from, to>> held by the segment's _temp file, <<>> when it does not exist
    s_out,            \* the segments created: reported start_row and end_row, rows held by the file
    k_pc,             \* position in process_directory
    k_run,            \* which run of process_directory this is
    k_delete,         \* the argument delete_originals
    k_dir,            \* the directory: content of each file name, "none" when absent
    k_list,           \* pdf_files
    k_idx,            \* index of pdf_file in pdf_files
    k_snap,           \* the directory when the second run started
    k_clean,          \* no conversion and no deletion has failed in the first run
    f_pc,             \* position of the USMC run over its PDF links
    f_items,          \* the PDF links of the run: pdf_url and publication_url
    f_idx,            \* index of the link being downloaded
    f_disk,           \* per output path: the URL whose content the file holds, <<>> when absent
    f_rec             \* per URL: downloaded_files[url]['success'], "none" when absent

dlVars == <<d_kind, d_pc, d_attempt, d_resp, d_requests, d_sleeps, d_saved, d_ret>>

icVars == <<i_pc, i_item, i_strategy, i_handlers>>

vaVars == <<v_pc, v_retry, v_outs, v_curl, v_curls, v_rec, v_ret>>

hmVars == <<h_files, h_stats, h_calls, h_last>>

spVars == <<s_pc, s_total, s_fit, s_est, s_start, s_min, s_max, s_chunk, s_final, s_temp, s_out>>

cpVars == <<k_pc, k_run, k_delete, k_dir, k_list, k_idx, k_snap, k_clean>>

fnVars == <<f_pc, f_items, f_idx, f_disk, f_rec>>

auxVars == <<dlVars, icVars, vaVars, hmVars, spVars, cpVars, fnVars>>

dlOthers == <<coreVars, wkVars, nmVars, egVars, pgVars, crVars, smVars, icVars, vaVars, hmVars, spVars, cpVars, fnVars>>

icOthers == <<coreVars, wkVars, nmVars, egVars, pgVars, crVars, smVars, dlVars, vaVars, hmVars, spVars, cpVars, fnVars>>

vaOthers == <<coreVars, wkVars, nmVars, egVars, pgVars, crVars, smVars, dlVars, icVars, hmVars, spVars, cpVars, fnVars>>

hmOthers == <<coreVars, wkVars, nmVars, egVars, pgVars, crVars, smVars, dlVars, icVars, vaVars, spVars, cpVars, fnVars>>

spOthers == <<coreVars, wkVars, nmVars, egVars, pgVars, crVars, smVars, dlVars, icVars, vaVars, hmVars, cpVars, fnVars>>

cpOthers == <<coreVars, wkVars, nmVars, egVars, pgVars, crVars, smVars, dlVars, icVars, vaVars, hmVars, spVars, fnVars>>

fnOthers == <<coreVars, wkVars, nmVars, egVars, pgVars, crVars, smVars, dlVars, icVars, vaVars, hmVars, spVars, cpVars>>

DlIdle ==
    /\ d_kind = "idle"
    /\ d_pc = "idle"
    /\ d_attempt = 0
    /\ d_resp = <<>>
    /\ d_requests = 0
    /\ d_sleeps = <<>>
    /\ d_saved = FALSE
    /\ d_ret = "none"

IcIdle ==
    /\ i_pc = "idle"
    /\ i_item = 0
    /\ i_strategy = "none"
    /\ i_handlers = {}

VaIdle ==
    /\ v_pc = "idle"
    /\ v_retry = 0
    /\ v_outs = <<>>
    /\ v_curl = "none"
    /\ v_curls = 0
    /\ v_rec = "none"
    /\ v_ret = "none"

HmIdle ==
    /\ h_files = {}
    /\ h_stats = <<>>
    /\ h_calls = 0
    /\ h_last = 0

SpIdle ==
    /\ s_pc = "idle"
    /\ s_total = 0
    /\ s_fit = 0
    /\ s_est = 0
    /\ s_start = 0
    /\ s_min = 0
    /\ s_max = 0
    /\ s_chunk = 0
    /\ s_final = FALSE
    /\ s_temp = <<>>
    /\ s_out = <<>>

CpIdle ==
    /\ k_pc = "idle"
    /\ k_run = 0
    /\ k_delete = FALSE
    /\ k_dir = <<>>
    /\ k_list = <<>>
    /\ k_idx = 0
    /\ k_snap = <<>>
    /\ k_clean = FALSE

FnIdle ==
    /\ f_pc = "idle"
    /\ f_items = <<>>
    /\ f_idx = 0
    /\ f_disk = <<>>
    /\ f_rec = <<>>

AuxIdle == DlIdle /\ IcIdle /\ VaIdle /\ HmIdle /\ SpIdle /\ CpIdle /\ FnIdle

\* ---- end of the variables of the further parts ----

extVars == <<wkVars, nmVars, egVars, pgVars, crVars, smVars, auxVars>>

\* for the actions of one part of the model: the variables of all the others
wkOthers == <<coreVars, nmVars, egVars, pgVars, crVars, smVars, auxVars>>

nmOthers == <<coreVars, wkVars, egVars, pgVars, crVars, smVars, auxVars>>

egOthers == <<coreVars, wkVars, nmVars, pgVars, crVars, smVars, auxVars>>

pgOthers == <<coreVars, wkVars, nmVars, egVars, crVars, smVars, auxVars>>

crOthers == <<coreVars, wkVars, nmVars, egVars, pgVars, smVars, auxVars>>

smOthers == <<coreVars, wkVars, nmVars, egVars, pgVars, crVars, auxVars>>

vars == <<coreVars, extVars>>

NoRecs == [u \in Urls |-> "absent"]

\* a variant of LoadTracking that never reads the file
LoadTracking_Forget(file) == NoRecs

\* _load_tracking: a missing file and a file json.load cannot parse both
\* give {}
LoadTracking(file) == IF file.valid THEN file.recs ELSE NoRecs

cur_url  == Docs[idx].url
cur_path == FilePath(idx)

ArmyInit ==
    /\ run = 1
    /\ resumed = FALSE
    /\ pc = "loop"
    /\ idx = 1
    /\ downloaded_files = NoRecs
    /\ tracking_file = [valid |-> TRUE, recs |-> NoRecs]
    /\ disk = [p \in Paths |-> NoFile]
    /\ retry = 0
    /\ success = FALSE
    /\ save_arg = FALSE
    /\ wr = "none"
    /\ result = "none"
    /\ via = "none"
    /\ net = {}
    /\ rounds = 0
    /\ fetched = {}
    /\ persisted = NoRecs

\* no download_pdf_properly is in progress
GaoIdle ==
    /\ g_pc = "idle"
    /\ g_fetch = [kind |-> "none", size |-> 0, pdf |-> FALSE]
    /\ g_route = [kind |-> "none", size |-> 0, pdf |-> FALSE]
    /\ g_file = NoFile
    /\ g_tried = <<>>
    /\ g_ret = "none"

Procs == {1, 2}

\* no second process shares the output directory
ProcsIdle ==
    /\ p_pc = [i \in Procs |-> "idle"]
    /\ p_files = [i \in Procs |-> NoRecs]
    /\ p_url = [i \in Procs |-> <<>>]
    /\ p_wrote = [i \in Procs |-> {}]

\* no concurrent calls of download_single_pdf are in progress
WkIdle ==
    /\ w_pc = [i \in Procs |-> "idle"]
    /\ w_retry = [i \in Procs |-> 0]
    /\ w_ok = [i \in Procs |-> FALSE]
    /\ w_ret = [i \in Procs |-> "none"]
    /\ w_dl = [i \in Procs |-> 0]
    /\ w_rec = "absent"
    /\ w_file = NoFile

\* generate_filename is not being exercised
NmIdle ==
    /\ n_item = [url |-> <<>>, number |-> <<>>]
    /\ n_calls = 0
    /\ n_names = {}

\* no engine loop of the second kind is running
EgIdle ==
    /\ e_pc = "idle"
    /\ e_idx = 0
    /\ e_faults = <<>>
    /\ e_out = <<>>

\* no pagination loop is running
PgIdle ==
    /\ u_pc = "idle"
    /\ u_start = 0
    /\ u_max = 0
    /\ u_page = 0
    /\ u_links = FALSE
    /\ u_count = 0

\* no crawl is running
CrIdle ==
    /\ c_pc = "idle"
    /\ c_graph = <<>>
    /\ c_bad = {}
    /\ c_maxd = 0
    /\ c_base = <<>>
    /\ c_queue = <<>>
    /\ c_visited = {}
    /\ c_error = {}
    /\ c_cur = <<>>
    /\ c_content = FALSE
    /\ c_fetches = <<>>

\* no BC Campus run is in progress
SmIdle ==
    /\ b_pc = "idle"
    /\ b_idx = 0
    /\ b_books = <<>>
    /\ b_stats = <<>>

ExtIdle == WkIdle /\ NmIdle /\ EgIdle /\ PgIdle /\ CrIdle /\ SmIdle /\ AuxIdle

CoreIdle == ArmyInit /\ GaoIdle /\ ProcsIdle

Init == ArmyInit /\ GaoIdle /\ ProcsIdle /\ ExtIdle

\* every part before the further parts at rest
OldIdle == CoreIdle /\ WkIdle /\ NmIdle /\ EgIdle /\ PgIdle /\ CrIdle /\ SmIdle

\* ---- one further part running, everything else at rest ----

DlAlone == OldIdle /\ IcIdle /\ VaIdle /\ HmIdle /\ SpIdle /\ CpIdle /\ FnIdle

IcAlone == OldIdle /\ DlIdle /\ VaIdle /\ HmIdle /\ SpIdle /\ CpIdle /\ FnIdle

VaAlone == OldIdle /\ DlIdle /\ IcIdle /\ HmIdle /\ SpIdle /\ CpIdle /\ FnIdle

HmAlone == OldIdle /\ DlIdle /\ IcIdle /\ VaIdle /\ SpIdle /\ CpIdle /\ FnIdle

SpAlone == OldIdle /\ DlIdle /\ IcIdle /\ VaIdle /\ HmIdle /\ CpIdle /\ FnIdle

CpAlone == OldIdle /\ DlIdle /\ IcIdle /\ VaIdle /\ HmIdle /\ SpIdle /\ FnIdle

FnAlone == OldIdle /\ DlIdle /\ IcIdle /\ VaIdle /\ HmIdle /\ SpIdle /\ CpIdle

\* ---- end of the rest predicates ----


\* ------------------------------------------------------------------------
\* ArmyPublicationScraper: the engine loop
\* ------------------------------------------------------------------------

\* return from download_single_pdf to the loop of process_army_publications
Return(flag) ==
    /\ result' = (IF flag THEN "True" ELSE "False")
    /\ idx' = idx + 1
    /\ pc' = "loop"

\* process_army_publications: the link of the next publication is neither
\* missing nor problematic, and download_single_pdf is called
ProcessNext ==
    /\ pc = "loop"
    /\ idx <= Len(Docs)
    /\ ~IsProblematic(cur_url)
    /\ pc' = "dsp"
    /\ retry' = 0
    /\ net' = {}
    /\ rounds' = 0
    /\ result' = "none"
    /\ via' = "none"
    /\ UNCHANGED <<run, resumed, idx, downloaded_files, tracking_file, disk,
                   success, save_arg, wr, fetched, persisted>>
    /\ UNCHANGED <<gaoVars, procVars, extVars>>

\* process_army_publications: "Skipping problematic PDF link"
SkipProblematic ==
    /\ pc = "loop"
    /\ idx <= Len(Docs)
    /\ IsProblematic(cur_url)
    /\ idx' = idx + 1
    /\ UNCHANGED <<run, resumed, pc, downloaded_files, tracking_file, disk, retry,
                   success, save_arg, wr, result, via, net, rounds, fetched, persisted>>
    /\ UNCHANGED <<gaoVars, procVars, extVars>>

\* process_army_publications: every category is processed
Finish ==
    /\ pc = "loop"
    /\ idx > Len(Docs)
    /\ pc' = "done"
    /\ UNCHANGED <<run, resumed, idx, downloaded_files, tracking_file, disk, retry,
                   success, save_arg, wr, result, via, net, rounds, fetched, persisted>>
    /\ UNCHANGED <<gaoVars, procVars, extVars>>

\* ------------------------------------------------------------------------
\* download_single_pdf
\* ------------------------------------------------------------------------

\* a variant of AlreadyDone that tests the success flag the wrong way round
AlreadyDone_Inverted(url) == downloaded_files[url] = "failed"

\* pdf_url in self.downloaded_files and self.downloaded_files[pdf_url]['success']
AlreadyDone(url) == downloaded_files[url] = "ok"

\* "Already successfully downloaded": return True
AlreadySuccess ==
    /\ pc = "dsp"
    /\ AlreadyDone(cur_url)
    /\ Return(TRUE)
    /\ via' = "already"
    /\ UNCHANGED <<run, resumed, downloaded_files, tracking_file, disk, retry,
                   success, save_arg, wr, net, rounds, fetched, persisted>>
    /\ UNCHANGED <<gaoVars, procVars, extVars>>

\* "File already exists": the record is backfilled
FileAlreadyExists ==
    /\ pc = "dsp"
    /\ ~AlreadyDone(cur_url)
    /\ ExistsAndBig(disk[cur_path])
    /\ pc' = "save"
    /\ save_arg' = TRUE
    /\ via' = "exists"
    /\ UNCHANGED <<run, resumed, idx, downloaded_files, tracking_file, disk, retry,
                   success, wr, result, net, rounds, fetched, persisted>>
    /\ UNCHANGED <<gaoVars, procVars, extVars>>

\* the retry loop is entered
StartDownload ==
    /\ pc = "dsp"
    /\ ~AlreadyDone(cur_url)
    /\ ~ExistsAndBig(disk[cur_path])
    /\ pc' = "dwp_session"
    /\ fetched' = fetched \cup {cur_url}
    /\ UNCHANGED <<run, resumed, idx, downloaded_files, tracking_file, disk, retry,
                   success, save_arg, wr, result, via, net, rounds, persisted>>
    /\ UNCHANGED <<gaoVars, procVars, extVars>>

\* a variant of MoreRetries that is off by one: range(max_retries + 1)
MoreRetries_OffByOne(r) == r < max_retries

\* for retry in range(max_retries): another iteration follows iteration r
MoreRetries(r) == r + 1 < max_retries

\* download_with_playwright returned True
RecordSuccess ==
    /\ pc = "dsp_ret"
    /\ success
    /\ pc' = "save"
    /\ save_arg' = TRUE
    /\ via' = "downloaded"
    /\ UNCHANGED <<run, resumed, idx, downloaded_files, tracking_file, disk, retry,
                   success, wr, result, net, rounds, fetched, persisted>>
    /\ UNCHANGED <<gaoVars, procVars, extVars>>

\* download_with_playwright returned False: sleep, next iteration
NextRetry ==
    /\ pc = "dsp_ret"
    /\ ~success
    /\ MoreRetries(retry)
    /\ retry' = retry + 1
    /\ pc' = "dwp_session"
    /\ UNCHANGED <<run, resumed, idx, downloaded_files, tracking_file, disk,
                   success, save_arg, wr, result, via, net, rounds, fetched, persisted>>
    /\ UNCHANGED <<gaoVars, procVars, extVars>>

\* "All download attempts failed"
GiveUp ==
    /\ pc = "dsp_ret"
    /\ ~success
    /\ ~MoreRetries(retry)
    /\ pc' = "save"
    /\ save_arg' = FALSE
    /\ via' = "failed"
    /\ UNCHANGED <<run, resumed, idx, downloaded_files, tracking_file, disk, retry,
                   success, wr, result, net, rounds, fetched, persisted>>
    /\ UNCHANGED <<gaoVars, procVars, extVars>>

\* ------------------------------------------------------------------------
\* _save_tracking
\* ------------------------------------------------------------------------

\* the new value of self.downloaded_files
Recorded(flag) ==
    [downloaded_files EXCEPT ![cur_url] = IF flag THEN "ok" ELSE "failed"]

\* what open(self.tracking_file, 'w') leaves in the file
Truncated == [valid |-> FALSE, recs |-> NoRecs]

\* the record is set and open(..., 'w') truncates the file
SaveOpen ==
    /\ pc = "save"
    /\ downloaded_files' = Recorded(save_arg)
    /\ tracking_file' = Truncated
    /\ pc' = "save_dump"
    /\ UNCHANGED <<run, resumed, idx, disk, retry, success, save_arg, wr, result, via,
                   net, rounds, fetched, persisted>>
    /\ UNCHANGED <<gaoVars, procVars, extVars>>

\* the record is set and open(..., 'w') raises: the error is logged
SaveOpenError ==
    /\ pc = "save"
    /\ downloaded_files' = Recorded(save_arg)
    /\ Return(save_arg)
    /\ UNCHANGED <<run, resumed, tracking_file, disk, retry, success, save_arg, wr,
                   net, rounds, fetched, persisted, via>>
    /\ UNCHANGED <<gaoVars, procVars, extVars>>

\* json.dump writes the whole dictionary and the file is closed
SaveDump ==
    /\ pc = "save_dump"
    /\ tracking_file' = [valid |-> TRUE, recs |-> downloaded_files]
    /\ persisted' = downloaded_files
    /\ Return(save_arg)
    /\ UNCHANGED <<run, resumed, downloaded_files, disk, retry, success, save_arg,
                   wr, net, rounds, fetched, via>>
    /\ UNCHANGED <<gaoVars, procVars, extVars>>

\* json.dump raises after the truncation (disk full): the error is logged
SaveDumpError ==
    /\ pc = "save_dump"
    /\ Return(save_arg)
    /\ UNCHANGED <<run, resumed, downloaded_files, tracking_file, disk, retry,
                   success, save_arg, wr, net, rounds, fetched, persisted, via>>
    /\ UNCHANGED <<gaoVars, procVars, extVars>>


\* ------------------------------------------------------------------------
\* Writing a file of the output directory
\* ------------------------------------------------------------------------

\* open(filepath, 'wb'), curl -o filepath and download.save_as(filepath) all
\* write to the final path: the file is created empty and then filled
OpenForWrite(b, cont) ==
    /\ disk' = [disk EXCEPT ![cur_path] = [size |-> 0, full |-> b.size, pdf |-> b.pdf]]
    /\ pc' = "write"
    /\ wr' = cont

\* the first part of the body reaches the file
WriteChunk ==
    /\ pc = "write"
    /\ disk[cur_path].size = 0
    /\ disk[cur_path].full > PartialSize
    /\ disk' = [disk EXCEPT ![cur_path].size = PartialSize]
    /\ UNCHANGED <<run, resumed, pc, idx, downloaded_files, tracking_file, retry,
                   success, save_arg, wr, result, via, net, rounds, fetched, persisted>>
    /\ UNCHANGED <<gaoVars, procVars, extVars>>

\* the rest of the body reaches the file and the file is closed
WriteRest ==
    /\ pc = "write"
    /\ disk' = [disk EXCEPT ![cur_path].size = disk[cur_path].full]
    /\ pc' = wr
    /\ wr' = "none"
    /\ UNCHANGED <<run, resumed, idx, downloaded_files, tracking_file, retry,
                   success, save_arg, result, via, net, rounds, fetched, persisted>>
    /\ UNCHANGED <<gaoVars, procVars, extVars>>

\* ------------------------------------------------------------------------
\* download_with_playwright
\* ------------------------------------------------------------------------

\* return from download_with_playwright
DwpReturn(flag) ==
    /\ success' = flag
    /\ pc' = "dsp_ret"

\* pdf_url.lower().endswith('.pdf')
IsDirectPdfUrl(url) == EndsWith(Lower(url), DotPdf)

\* new_page, goto(base_url), goto(publication_url); an exception of either
\* is caught by the outer handler, which returns False
DwpSession ==
    /\ pc = "dwp_session"
    /\ rounds' = rounds + 1
    /\ net' = {"goto"}
    /\ \E ok \in BOOLEAN :
          IF ok
          THEN /\ pc' = (IF IsDirectPdfUrl(cur_url) THEN "dwp_fetch" ELSE "dwp_goto")
               /\ UNCHANGED success
          ELSE DwpReturn(FALSE)
    /\ UNCHANGED <<run, resumed, idx, downloaded_files, tracking_file, disk, retry,
                   save_arg, wr, result, via, fetched, persisted>>
    /\ UNCHANGED <<gaoVars, procVars, extVars>>

\* page.evaluate(fetch) returns null: "If fetch API fails, try direct navigation"
DwpFetchNull ==
    /\ pc = "dwp_fetch"
    /\ net' = net \cup {"fetch"}
    /\ pc' = "dwp_goto"
    /\ UNCHANGED <<run, resumed, idx, downloaded_files, tracking_file, disk, retry,
                   success, save_arg, wr, result, via, rounds, fetched, persisted>>
    /\ UNCHANGED <<gaoVars, procVars, extVars>>

\* page.evaluate(fetch) raises: the inner handler logs it
DwpFetchRaise ==
    /\ pc = "dwp_fetch"
    /\ net' = net \cup {"fetch"}
    /\ pc' = "dwp_wait"
    /\ UNCHANGED <<run, resumed, idx, downloaded_files, tracking_file, disk, retry,
                   success, save_arg, wr, result, via, rounds, fetched, persisted>>
    /\ UNCHANGED <<gaoVars, procVars, extVars>>

\* page.evaluate(fetch) returns the body, which is written to filepath
DwpFetchContent ==
    /\ pc = "dwp_fetch"
    /\ net' = net \cup {"fetch"}
    /\ \E b \in Blobs : OpenForWrite(b, "fetch_check")
    /\ UNCHANGED <<run, resumed, idx, downloaded_files, tracking_file, retry,
                   success, save_arg, result, via, rounds, fetched, persisted>>
    /\ UNCHANGED <<gaoVars, procVars, extVars>>

\* "Check if the file is valid" after the fetch
FetchCheck ==
    /\ pc = "fetch_check"
    /\ IF ExistsAndBig(disk[cur_path])
       THEN DwpReturn(TRUE)
       ELSE pc' = "dwp_wait" /\ UNCHANGED success
    /\ UNCHANGED <<run, resumed, idx, downloaded_files, tracking_file, disk, retry,
                   save_arg, wr, result, via, net, rounds, fetched, persisted>>
    /\ UNCHANGED <<gaoVars, procVars, extVars>>

\* page.goto(pdf_url) with no download: the page renders inline, the
\* navigation raises, or save_as fails
DwpGotoNoDownload ==
    /\ pc = "dwp_goto"
    /\ net' = net \cup {"goto"}
    /\ pc' = "dwp_wait"
    /\ UNCHANGED <<run, resumed, idx, downloaded_files, tracking_file, disk, retry,
                   success, save_arg, wr, result, via, rounds, fetched, persisted>>
    /\ UNCHANGED <<gaoVars, procVars, extVars>>

\* page.goto(pdf_url) starts a download: handle_download saves it to filepath
DwpGotoDownload ==
    /\ pc = "dwp_goto"
    /\ net' = net \cup {"goto"}
    /\ \E b \in Blobs : OpenForWrite(b, "dwp_wait")
    /\ UNCHANGED <<run, resumed, idx, downloaded_files, tracking_file, retry,
                   success, save_arg, result, via, rounds, fetched, persisted>>
    /\ UNCHANGED <<gaoVars, procVars, extVars>>

\* after the wait: "Check if the file was downloaded and is valid"
DwpWaitCheck ==
    /\ pc = "dwp_wait"
    /\ IF ExistsAndBig(disk[cur_path])
       THEN DwpReturn(TRUE)
       ELSE pc' = "dwp_curl" /\ UNCHANGED success
    /\ UNCHANGED <<run, resumed, idx, downloaded_files, tracking_file, disk, retry,
                   save_arg, wr, result, via, net, rounds, fetched, persisted>>
    /\ UNCHANGED <<gaoVars, procVars, extVars>>

\* curl exits non-zero before it writes anything: subprocess.run raises
DwpCurlFail ==
    /\ pc = "dwp_curl"
    /\ net' = net \cup {"curl"}
    /\ DwpReturn(FALSE)
    /\ UNCHANGED <<run, resumed, idx, downloaded_files, tracking_file, disk, retry,
                   save_arg, wr, result, via, rounds, fetched, persisted>>
    /\ UNCHANGED <<gaoVars, procVars, extVars>>

\* curl -o filepath receives a body
DwpCurlContent ==
    /\ pc = "dwp_curl"
    /\ net' = net \cup {"curl"}
    /\ \E b \in Blobs : OpenForWrite(b, "curl_check")
    /\ UNCHANGED <<run, resumed, idx, downloaded_files, tracking_file, retry,
                   success, save_arg, result, via, rounds, fetched, persisted>>
    /\ UNCHANGED <<gaoVars, procVars, extVars>>

\* the transfer breaks off after part of the body reached the file: curl
\* exits non-zero, subprocess.run raises
DwpCurlAbort ==
    /\ pc = "write"
    /\ wr = "curl_check"
    /\ 0 < disk[cur_path].size
    /\ disk[cur_path].size < disk[cur_path].full
    /\ wr' = "none"
    /\ DwpReturn(FALSE)
    /\ UNCHANGED <<run, resumed, idx, downloaded_files, tracking_file, disk, retry,
                   save_arg, result, via, net, rounds, fetched, persisted>>
    /\ UNCHANGED <<gaoVars, procVars, extVars>>

\* the check after curl
CurlCheck ==
    /\ pc = "curl_check"
    /\ DwpReturn(ExistsAndBig(disk[cur_path]))
    /\ UNCHANGED <<run, resumed, idx, downloaded_files, tracking_file, disk, retry,
                   save_arg, wr, result, via, net, rounds, fetched, persisted>>
    /\ UNCHANGED <<gaoVars, procVars, extVars>>

\* ------------------------------------------------------------------------
\* The process and its environment
\* ------------------------------------------------------------------------

Running == pc \notin {"stopped", "done"}

\* the process is killed or interrupted: its memory is gone, the files stay
Kill ==
    /\ Running
    /\ pc' = "stopped"
    /\ idx' = 1
    /\ downloaded_files' = NoRecs
    /\ retry' = 0
    /\ success' = FALSE
    /\ save_arg' = FALSE
    /\ wr' = "none"
    /\ result' = "none"
    /\ net' = {}
    /\ rounds' = 0
    /\ fetched' = {}
    /\ via' = "none"
    /\ UNCHANGED <<run, resumed, tracking_file, disk, persisted>>
    /\ UNCHANGED <<gaoVars, procVars, extVars>>

\* the script is started again: __init__ loads the tracking file
Restart ==
    /\ ~Running
    /\ run < MaxRuns
    /\ run' = run + 1
    /\ resumed' = (pc = "stopped")
    /\ downloaded_files' = LoadTracking(tracking_file)
    /\ pc' = "loop"
    /\ idx' = 1
    /\ retry' = 0
    /\ success' = FALSE
    /\ save_arg' = FALSE
    /\ wr' = "none"
    /\ result' = "none"
    /\ net' = {}
    /\ rounds' = 0
    /\ fetched' = {}
    /\ via' = "none"
    /\ UNCHANGED <<tracking_file, disk, persisted>>
    /\ UNCHANGED <<gaoVars, procVars, extVars>>

\* between two runs the user deletes a file of the output directory
UserDelete ==
    /\ ~Running
    /\ run < MaxRuns
    /\ \E p \in Paths :
          /\ disk[p] # NoFile
          /\ disk' = [disk EXCEPT ![p] = NoFile]
    /\ UNCHANGED <<run, resumed, pc, idx, downloaded_files, tracking_file, retry,
                   success, save_arg, wr, result, via, net, rounds, fetched, persisted>>
    /\ UNCHANGED <<gaoVars, procVars, extVars>>

Next ==
    \/ ProcessNext
    \/ SkipProblematic
    \/ Finish
    \/ AlreadySuccess
    \/ FileAlreadyExists
    \/ StartDownload
    \/ RecordSuccess
    \/ NextRetry
    \/ GiveUp
    \/ SaveOpen
    \/ SaveOpenError
    \/ SaveDump
    \/ SaveDumpError
    \/ WriteChunk
    \/ WriteRest
    \/ DwpSession
    \/ DwpFetchNull
    \/ DwpFetchRaise
    \/ DwpFetchContent
    \/ FetchCheck
    \/ DwpGotoNoDownload
    \/ DwpGotoDownload
    \/ DwpWaitCheck
    \/ DwpCurlFail
    \/ DwpCurlContent
    \/ DwpCurlAbort
    \/ CurlCheck
    \/ Kill
    \/ Restart
    \/ UserDelete

Spec == Init /\ [][Next]_vars


\* ------------------------------------------------------------------------
\* GAOReportScraper: download_pdf_properly and download_via_fetch
\* ------------------------------------------------------------------------

\* Sizes of the bodies the GAO server sends: shorter than the signature,
\* around the threshold, and larger.
GaoSizes == {3, MinSize - 1, MinSize, MinSize + 1, 2 * MinSize}

GaoBlobs == [size : GaoSizes, pdf : BOOLEAN]

\* What page.evaluate(fetch) yields: it raises, it returns success: false,
\* or it returns the bytes of the body.
NoBody(k) == [kind |-> k, size |-> 0, pdf |-> FALSE]

Body(b) == [kind |-> "body", size |-> b.size, pdf |-> b.pdf]

GaoFetchOutcomes == {NoBody("raise"), NoBody("not_ok")} \cup {Body(b) : b \in GaoBlobs}

\* What route interception of the same URL would yield if it were called.
GaoRouteOutcomes == {NoBody("fail")} \cup {Body(b) : b \in {c \in GaoBlobs : c.size = 2 * MinSize}}

\* is_valid_pdf: the first four bytes of the file are %PDF
is_valid_pdf(f) == f # NoFile /\ f.size >= 4 /\ f.pdf

\* the file a completed write of body b leaves
FileOf(b) == [size |-> b.size, full |-> b.size, pdf |-> b.pdf]

\* scrape_reports calls download_pdf_properly for a report whose file does
\* not exist yet
GaoInit ==
    /\ g_pc = "fetch"
    /\ g_fetch \in GaoFetchOutcomes
    /\ g_route \in GaoRouteOutcomes
    /\ g_file = NoFile
    /\ g_tried = <<>>
    /\ g_ret = "none"

\* return from download_via_fetch: download_pdf_properly executes
\* "return await self.download_via_fetch(...)", so the value returned is the
\* value of download_pdf_properly, whether True or False
GaoFetchReturn(flag) ==
    /\ g_ret' = (IF flag THEN "True" ELSE "False")
    /\ g_pc' = "done"

\* download_via_fetch: page.evaluate raises; the handler returns False
GaoFetchRaise ==
    /\ g_pc = "fetch"
    /\ g_fetch.kind = "raise"
    /\ g_tried' = Append(g_tried, "fetch")
    /\ GaoFetchReturn(FALSE)
    /\ UNCHANGED <<g_fetch, g_route, g_file>>
    /\ UNCHANGED <<armyVars, tracking_file, procVars, extVars>>

\* download_via_fetch: result['success'] is false: "Fetch failed", return False
GaoFetchNotOk ==
    /\ g_pc = "fetch"
    /\ g_fetch.kind = "not_ok"
    /\ g_tried' = Append(g_tried, "fetch")
    /\ GaoFetchReturn(FALSE)
    /\ UNCHANGED <<g_fetch, g_route, g_file>>
    /\ UNCHANGED <<armyVars, tracking_file, procVars, extVars>>

\* download_via_fetch: open(filepath, 'wb') creates the file
GaoFetchOpen ==
    /\ g_pc = "fetch"
    /\ g_fetch.kind = "body"
    /\ g_tried' = Append(g_tried, "fetch")
    /\ g_file' = [size |-> 0, full |-> g_fetch.size, pdf |-> g_fetch.pdf]
    /\ g_pc' = "fetch_write"
    /\ UNCHANGED <<g_fetch, g_route, g_ret>>
    /\ UNCHANGED <<armyVars, tracking_file, procVars, extVars>>

\* download_via_fetch: f.write(pdf_bytes) and close
GaoFetchWrite ==
    /\ g_pc = "fetch_write"
    /\ g_file' = FileOf(g_fetch)
    /\ g_pc' = "fetch_verify"
    /\ UNCHANGED <<g_fetch, g_route, g_tried, g_ret>>
    /\ UNCHANGED <<armyVars, tracking_file, procVars, extVars>>

\* download_via_fetch: is_valid_pdf(filepath) and file_size > 1000
GaoAccepts(f) == is_valid_pdf(f) /\ f.size > MinSize

\* download_via_fetch: "Verify it's a valid PDF": return True
GaoFetchAccept ==
    /\ g_pc = "fetch_verify"
    /\ GaoAccepts(g_file)
    /\ GaoFetchReturn(TRUE)
    /\ UNCHANGED <<g_fetch, g_route, g_file, g_tried>>
    /\ UNCHANGED <<armyVars, tracking_file, procVars, extVars>>

\* download_via_fetch: "Invalid PDF or too small": unlink, return False
GaoFetchReject ==
    /\ g_pc = "fetch_verify"
    /\ ~GaoAccepts(g_file)
    /\ g_file' = NoFile
    /\ GaoFetchReturn(FALSE)
    /\ UNCHANGED <<g_fetch, g_route, g_tried>>
    /\ UNCHANGED <<armyVars, tracking_file, procVars, extVars>>

\* download_with_route and download_via_response are called only from the
\* handlers of an exception of the method before them; download_via_fetch
\* catches every Exception itself, so no step calls them.
GaoNext ==
    \/ GaoFetchRaise
    \/ GaoFetchNotOk
    \/ GaoFetchOpen
    \/ GaoFetchWrite
    \/ GaoFetchAccept
    \/ GaoFetchReject

\* a report of the listing is being downloaded; nothing else runs
InitGAO == ArmyInit /\ GaoInit /\ ProcsIdle /\ ExtIdle

SpecGAO == InitGAO /\ [][GaoNext]_vars

\* ------------------------------------------------------------------------
\* Two scraper processes sharing one output directory
\* ------------------------------------------------------------------------

\* Number of outcomes each process records.
MaxSaves == 2

\* main(): ArmyPublicationScraper() is constructed; __init__ loads the
\* tracking file of the shared output directory
ProcConstruct(i) ==
    /\ p_pc[i] = "new"
    /\ p_files' = [p_files EXCEPT ![i] = LoadTracking(tracking_file)]
    /\ p_pc' = [p_pc EXCEPT ![i] = "ready"]
    /\ UNCHANGED <<p_url, p_wrote, tracking_file>>
    /\ UNCHANGED <<armyVars, gaoVars, extVars>>

\* _save_tracking(pdf_url, success): the record is set in the process's own
\* dictionary and open(..., 'w') truncates the shared file
ProcSaveOpen(i) ==
    /\ p_pc[i] = "ready"
    /\ Cardinality(p_wrote[i]) < MaxSaves
    /\ \E u \in Urls \ p_wrote[i], flag \in BOOLEAN :
          /\ ~IsProblematic(u)
          /\ p_files[i][u] # "ok"
          /\ p_files' = [p_files EXCEPT ![i][u] = IF flag THEN "ok" ELSE "failed"]
          /\ p_url' = [p_url EXCEPT ![i] = u]
          /\ p_wrote' = [p_wrote EXCEPT ![i] = @ \cup {u}]
    /\ tracking_file' = Truncated
    /\ p_pc' = [p_pc EXCEPT ![i] = "dump"]
    /\ UNCHANGED <<armyVars, gaoVars, extVars>>

\* _save_tracking: json.dump writes the process's whole dictionary
ProcSaveDump(i) ==
    /\ p_pc[i] = "dump"
    /\ tracking_file' = [valid |-> TRUE, recs |-> p_files[i]]
    /\ p_pc' = [p_pc EXCEPT ![i] = "ready"]
    /\ UNCHANGED <<p_files, p_url, p_wrote>>
    /\ UNCHANGED <<armyVars, gaoVars, extVars>>

\* process_army_publications returns
ProcFinish(i) ==
    /\ p_pc[i] = "ready"
    /\ p_pc' = [p_pc EXCEPT ![i] = "done"]
    /\ UNCHANGED <<p_files, p_url, p_wrote, tracking_file>>
    /\ UNCHANGED <<armyVars, gaoVars, extVars>>

ProcsInit ==
    /\ p_pc = [i \in Procs |-> "new"]
    /\ p_files = [i \in Procs |-> NoRecs]
    /\ p_url = [i \in Procs |-> <<>>]
    /\ p_wrote = [i \in Procs |-> {}]

ProcsNext ==
    \/ \E i \in Procs : ProcConstruct(i)
    \/ \E i \in Procs : ProcSaveOpen(i)
    \/ \E i \in Procs : ProcSaveDump(i)
    \/ \E i \in Procs : ProcFinish(i)

\* two scraper processes are started on one output directory
InitShared == ArmyInit /\ GaoIdle /\ ProcsInit /\ ExtIdle

SpecShared == InitShared /\ [][ProcsNext]_vars

\* ------------------------------------------------------------------------
\* Two concurrent calls of download_single_pdf for one URL
\* ------------------------------------------------------------------------

\* Two coroutines of one scraper object call download_single_pdf for the
\* same pdf_url.  A coroutine runs without interruption from one await to
\* the next; every await of download_with_playwright and asyncio.sleep lets
\* the other coroutine run.

\* what the server sends in one download_with_playwright: nothing, or a body
WkBodies == {NoFile} \cup {[size |-> b.size, full |-> b.size, pdf |-> b.pdf] : b \in Blobs}

InitWorkers ==
    /\ CoreIdle /\ AuxIdle /\ NmIdle /\ EgIdle /\ PgIdle /\ CrIdle /\ SmIdle
    /\ w_pc = [i \in Procs |-> "check"]
    /\ w_retry = [i \in Procs |-> 0]
    /\ w_ok = [i \in Procs |-> FALSE]
    /\ w_ret = [i \in Procs |-> "none"]
    /\ w_dl = [i \in Procs |-> 0]
    /\ w_rec \in {"absent", "failed"}
    /\ w_file = NoFile

\* return value v of call i
WkReturn(i, v) ==
    /\ w_ret' = [w_ret EXCEPT ![i] = IF v THEN "True" ELSE "False"]
    /\ w_pc' = [w_pc EXCEPT ![i] = "done"]

\* "Already successfully downloaded": return True
WkAlreadySuccess(i) ==
    /\ w_pc[i] = "check"
    /\ w_rec = "ok"
    /\ WkReturn(i, TRUE)
    /\ UNCHANGED <<w_retry, w_ok, w_dl, w_rec, w_file>>
    /\ UNCHANGED wkOthers

\* "File already exists": _save_tracking(pdf_url, True), return True
WkFileExists(i) ==
    /\ w_pc[i] = "check"
    /\ w_rec # "ok"
    /\ ExistsAndBig(w_file)
    /\ w_rec' = "ok"
    /\ WkReturn(i, TRUE)
    /\ UNCHANGED <<w_retry, w_ok, w_dl, w_file>>
    /\ UNCHANGED wkOthers

\* both checks are passed: the retry loop is entered and
\* download_with_playwright is awaited
WkStartDownload(i) ==
    /\ w_pc[i] = "check"
    /\ w_rec # "ok"
    /\ ~ExistsAndBig(w_file)
    /\ w_pc' = [w_pc EXCEPT ![i] = "download"]
    /\ UNCHANGED <<w_retry, w_ok, w_ret, w_dl, w_rec, w_file>>
    /\ UNCHANGED wkOthers

\* download_with_playwright: a body, if any, is written to filepath, and the
\* call returns whether the file there exists and is larger than 1000 bytes
WkDownload(i) ==
    /\ w_pc[i] = "download"
    /\ \E f \in WkBodies :
          /\ w_file' = (IF f = NoFile THEN w_file ELSE f)
          /\ w_ok' = [w_ok EXCEPT ![i] = ExistsAndBig(w_file')]
    /\ w_dl' = [w_dl EXCEPT ![i] = @ + 1]
    /\ w_pc' = [w_pc EXCEPT ![i] = "ret"]
    /\ UNCHANGED <<w_retry, w_ret, w_rec>>
    /\ UNCHANGED wkOthers

\* success: _save_tracking(pdf_url, True), return True
WkRecordSuccess(i) ==
    /\ w_pc[i] = "ret"
    /\ w_ok[i]
    /\ w_rec' = "ok"
    /\ WkReturn(i, TRUE)
    /\ UNCHANGED <<w_retry, w_ok, w_dl, w_file>>
    /\ UNCHANGED wkOthers

\* failure: await asyncio.sleep(3), next iteration
WkNextRetry(i) ==
    /\ w_pc[i] = "ret"
    /\ ~w_ok[i]
    /\ MoreRetries(w_retry[i])
    /\ w_retry' = [w_retry EXCEPT ![i] = @ + 1]
    /\ w_pc' = [w_pc EXCEPT ![i] = "download"]
    /\ UNCHANGED <<w_ok, w_ret, w_dl, w_rec, w_file>>
    /\ UNCHANGED wkOthers

\* "All download attempts failed": _save_tracking(pdf_url, False), return False
WkGiveUp(i) ==
    /\ w_pc[i] = "ret"
    /\ ~w_ok[i]
    /\ ~MoreRetries(w_retry[i])
    /\ w_rec' = "failed"
    /\ WkReturn(i, FALSE)
    /\ UNCHANGED <<w_retry, w_ok, w_dl, w_file>>
    /\ UNCHANGED wkOthers

WorkersNext ==
    \/ \E i \in Procs : WkAlreadySuccess(i)
    \/ \E i \in Procs : WkFileExists(i)
    \/ \E i \in Procs : WkStartDownload(i)
    \/ \E i \in Procs : WkDownload(i)
    \/ \E i \in Procs : WkRecordSuccess(i)
    \/ \E i \in Procs : WkNextRetry(i)
    \/ \E i \in Procs : WkGiveUp(i)

SpecWorkers == InitWorkers /\ [][WorkersNext]_vars

\* ------------------------------------------------------------------------
\* The output path of a work item
\* ------------------------------------------------------------------------

\* Number of times download_single_pdf derives the path of the work item
\* (repeated calls, in the same run or in later runs).
MaxCalls == 5

\* The work items: each PDF link of the listing with each publication number.
WorkItems == {[url |-> AllDocs[i].url, number |-> AllDocs[j].number] : i, j \in DOMAIN AllDocs}

InitNames ==
    /\ CoreIdle /\ AuxIdle /\ WkIdle /\ EgIdle /\ PgIdle /\ CrIdle /\ SmIdle
    /\ n_item \in WorkItems
    /\ n_calls = 0
    /\ n_names = {}

\* a variant of DerivedPath that numbers the files of a work item, call by call
DerivedPath_Numbered(item) ==
    generate_filename(item.url, item.number) \o <<DigitsUnderscore[n_calls + 1]>>

\* download_single_pdf: filename = self.generate_filename(pdf_url, pub_info);
\* filepath = os.path.join(self.output_dir, filename)
DerivedPath(item) == generate_filename(item.url, item.number)

\* one call of download_single_pdf for the work item reaches the derivation
\* of its output path
NameCall ==
    /\ n_calls < MaxCalls
    /\ n_calls' = n_calls + 1
    /\ n_names' = n_names \cup {DerivedPath(n_item)}
    /\ UNCHANGED n_item
    /\ UNCHANGED nmOthers

NamesNext ==
    \/ NameCall

SpecNames == InitNames /\ [][NamesNext]_vars

\* ------------------------------------------------------------------------
\* process_army_publications and the errors of one publication
\* ------------------------------------------------------------------------

\* Number of publications of the category page.
EngItems == 3

\* What goes wrong with a publication:
\*   none        nothing outside the handlers of the functions called
\*   no_link     its page cannot be loaded: get_page_content catches the
\*               exception and extract_pdf_link returns None
\*   bad_record  the tracking file holds a record for its PDF link that has
\*               no 'success' key: self.downloaded_files[pdf_url]['success']
\*               raises KeyError in download_single_pdf, outside any try
EngFaults == {"none", "no_link", "bad_record"}

InitEngine ==
    /\ CoreIdle /\ AuxIdle /\ WkIdle /\ NmIdle /\ PgIdle /\ CrIdle /\ SmIdle
    /\ e_pc = "loop"
    /\ e_idx = 1
    /\ e_faults \in [1..EngItems -> EngFaults]
    /\ e_out = [i \in 1..EngItems |-> "pending"]

\* the publication at e_idx ends with outcome o and the loop goes on
EngOutcome(o) ==
    /\ e_out' = [e_out EXCEPT ![e_idx] = o]
    /\ e_idx' = e_idx + 1
    /\ e_pc' = "loop"

\* extract_pdf_link returns None: "No PDF link found for ..."
EngNoLink ==
    /\ e_pc = "loop"
    /\ e_idx <= EngItems
    /\ e_faults[e_idx] = "no_link"
    /\ EngOutcome("no_link")
    /\ UNCHANGED e_faults
    /\ UNCHANGED egOthers

\* extract_pdf_link returns a link: download_single_pdf is called
EngCall ==
    /\ e_pc = "loop"
    /\ e_idx <= EngItems
    /\ e_faults[e_idx] # "no_link"
    /\ e_pc' = "dsp"
    /\ UNCHANGED <<e_idx, e_faults, e_out>>
    /\ UNCHANGED egOthers

\* download_single_pdf returns: True, or False after its rounds (every
\* exception of a round is caught in download_with_playwright or in the loop)
EngReturn ==
    /\ e_pc = "dsp"
    /\ e_faults[e_idx] = "none"
    /\ \E ok \in BOOLEAN : EngOutcome(IF ok THEN "ok" ELSE "failed")
    /\ UNCHANGED e_faults
    /\ UNCHANGED egOthers

\* the already-done check raises: the exception leaves download_single_pdf
\* and the for loops, and reaches "except Exception" of
\* process_army_publications
EngRaise ==
    /\ e_pc = "dsp"
    /\ e_faults[e_idx] = "bad_record"
    /\ e_pc' = "except"
    /\ UNCHANGED <<e_idx, e_faults, e_out>>
    /\ UNCHANGED egOthers

\* "Error in processing", finally: close_browser, "Processing completed."
EngExcept ==
    /\ e_pc = "except"
    /\ e_pc' = "done"
    /\ UNCHANGED <<e_idx, e_faults, e_out>>
    /\ UNCHANGED egOthers

\* the loops are exhausted; finally: close_browser, "Processing completed."
EngFinish ==
    /\ e_pc = "loop"
    /\ e_idx > EngItems
    /\ e_pc' = "done"
    /\ UNCHANGED <<e_idx, e_faults, e_out>>
    /\ UNCHANGED egOthers

EngineNext ==
    \/ EngNoLink
    \/ EngCall
    \/ EngReturn
    \/ EngRaise
    \/ EngExcept
    \/ EngFinish

SpecEngine == InitEngine /\ [][EngineNext]_vars

\* ------------------------------------------------------------------------
\* process_marine_publications: the pagination loop
\* ------------------------------------------------------------------------

\* Largest start_page and largest max_pages the operator enters.
MaxStartPage == 2

MaxPagesCfg == 3

\* current_page is unbounded in the code; the model lets it grow to PageCap
\* and stay there.  PageCap is above every page number the max_pages test
\* compares with, so the test is exact for every configuration.
PageCap == MaxStartPage + MaxPagesCfg + 1

Bump(n) == IF n < PageCap THEN n + 1 ELSE n

\* main(): start_page and max_pages are read from the operator; an empty
\* answer gives max_pages = None, written 0 here (both are false in
\* "if max_pages and ...")
InitPages ==
    /\ CoreIdle /\ AuxIdle /\ WkIdle /\ NmIdle /\ EgIdle /\ CrIdle /\ SmIdle
    /\ u_start \in 1..MaxStartPage
    /\ u_max \in 0..MaxPagesCfg
    /\ u_page = u_start
    /\ u_pc = "extract"
    /\ u_links = FALSE
    /\ u_count = 0

\* publication_links = await self.extract_publication_links(page_url)
PgExtract ==
    /\ u_pc = "extract"
    /\ u_links' \in BOOLEAN
    /\ u_count' = Bump(u_count)
    /\ u_pc' = "links"
    /\ UNCHANGED <<u_start, u_max, u_page>>
    /\ UNCHANGED pgOthers

\* no links on a page after the first: "No more publications found. Stopping."
PgStopEmpty ==
    /\ u_pc = "links"
    /\ ~u_links
    /\ u_page > u_start
    /\ u_pc' = "done"
    /\ UNCHANGED <<u_start, u_max, u_page, u_links, u_count>>
    /\ UNCHANGED pgOthers

\* the publications of the page are processed
PgProcess ==
    /\ u_pc = "links"
    /\ u_links \/ u_page = u_start
    /\ u_pc' = "check_max"
    /\ UNCHANGED <<u_start, u_max, u_page, u_links, u_count>>
    /\ UNCHANGED pgOthers

\* max_pages and current_page >= start_page + max_pages - 1
ReachedMax == u_max # 0 /\ u_page >= u_start + u_max - 1

\* "Reached maximum number of pages": break
PgStopMax ==
    /\ u_pc = "check_max"
    /\ ReachedMax
    /\ u_pc' = "done"
    /\ UNCHANGED <<u_start, u_max, u_page, u_links, u_count>>
    /\ UNCHANGED pgOthers

\* current_page += 1
PgNextPage ==
    /\ u_pc = "check_max"
    /\ ~ReachedMax
    /\ u_page' = Bump(u_page)
    /\ u_pc' = "extract"
    /\ UNCHANGED <<u_start, u_max, u_links, u_count>>
    /\ UNCHANGED pgOthers

PagesNext ==
    \/ PgExtract
    \/ PgStopEmpty
    \/ PgProcess
    \/ PgStopMax
    \/ PgNextPage

SpecPages == InitPages /\ [][PagesNext]_vars

\* the event loop keeps running the coroutine: a step that can be taken is
\* taken
SpecPagesLive == SpecPages /\ WF_vars(PagesNext)

\* ------------------------------------------------------------------------
\* WebScraperPDF.scrape: the breadth-first crawl
\* ------------------------------------------------------------------------

\* Largest max_depth the operator enters.
MaxDepthCfg == 2

\* The pages of the site, named by their normalized URLs.
CrawlPages == { <<"a">>, <<"b">>, <<"c">> }

\* The absolute URLs the anchors of the pages resolve to: with and without
\* a trailing slash, and with a fragment.
Hrefs == { <<"a","/">>, <<"b">>, <<"b","/">>, <<"c","#","t">> }

\* The URL the operator enters for the home page.
BaseUrls == { <<"a">>, <<"a","/">> }

\* str.rstrip('/')
RECURSIVE RStripSlash(_)
RStripSlash(s) ==
    IF s # <<>> /\ s[Len(s)] = "/" THEN RStripSlash(SubSeq(s, 1, Len(s) - 1)) ELSE s

\* normalize_url: the fragment is dropped and trailing slashes are stripped
normalize_url(url) == RStripSlash(BeforeFirst(url, "#"))

\* the URLs the crawl can meet
CrawlUrls == BaseUrls \cup {normalize_url(h) : h \in Hrefs}

\* get_links: the normalized URLs of the anchors of the page loaded from url
\* (all of the site's domain, none matching an exclude pattern)
get_links(url) == {normalize_url(h) : h \in c_graph[normalize_url(url)]}

\* list(links): the orders in which the elements of a set can be listed
Orders(S) == {s \in [1..Cardinality(S) -> S] : Range(s) = S}

InitCrawl ==
    /\ CoreIdle /\ AuxIdle /\ WkIdle /\ NmIdle /\ EgIdle /\ PgIdle /\ SmIdle
    /\ c_graph \in [CrawlPages -> {H \in SUBSET Hrefs : Cardinality(H) <= 2}]
    /\ c_bad \in SUBSET { <<"b">> }
    /\ c_maxd \in 0..MaxDepthCfg
    /\ c_base \in BaseUrls
    /\ c_queue = << <<c_base, 0>> >>
    /\ c_visited = {}
    /\ c_error = {}
    /\ c_cur = << <<>>, 0 >>
    /\ c_content = FALSE
    /\ c_fetches = [u \in CrawlUrls |-> 0]
    /\ c_pc = "loop"

\* a variant of Seen that does not consult self.visited_urls
Seen_ErrorsOnly(url) == url \in c_error

\* url in self.visited_urls or url in self.error_urls
Seen(url) == url \in c_visited \/ url \in c_error

\* popleft; the entry is visited, in error or too deep: continue
CrSkip ==
    /\ c_pc = "loop"
    /\ c_queue # <<>>
    /\ LET url == Head(c_queue)[1]
           depth == Head(c_queue)[2]
       IN  Seen(url) \/ depth > c_maxd
    /\ c_queue' = Tail(c_queue)
    /\ UNCHANGED <<c_pc, c_graph, c_bad, c_maxd, c_base, c_visited, c_error, c_cur, c_content, c_fetches>>
    /\ UNCHANGED crOthers

\* popleft; visited_urls.add(url); content = self.extract_body_text(url),
\* which loads the page and, when it fails, adds url to error_urls
CrVisit ==
    /\ c_pc = "loop"
    /\ c_queue # <<>>
    /\ LET url == Head(c_queue)[1]
           depth == Head(c_queue)[2]
       IN  /\ ~(Seen(url) \/ depth > c_maxd)
           /\ c_visited' = c_visited \cup {url}
           /\ c_fetches' = [c_fetches EXCEPT ![url] = @ + 1]
           /\ c_content' = (normalize_url(url) \notin c_bad)
           /\ c_error' = (IF normalize_url(url) \in c_bad THEN c_error \cup {url} ELSE c_error)
           /\ c_cur' = <<url, depth>>
    /\ c_queue' = Tail(c_queue)
    /\ c_pc' = "links"
    /\ UNCHANGED <<c_graph, c_bad, c_maxd, c_base>>
    /\ UNCHANGED crOthers

\* a variant of CanDescend that also follows the links of the deepest pages
CanDescend_Inclusive(depth) == depth <= c_maxd /\ c_content

\* depth < self.max_depth and content
CanDescend(depth) == depth < c_maxd /\ c_content

\* a variant of Enqueue that puts the entries at the front (appendleft)
Enqueue_Front(queue, entries) == entries \o queue

\* queue.append for each of the entries
Enqueue(queue, entries) == queue \o entries

\* "Get links for next depth": the new links are appended with depth + 1
CrEnqueue ==
    /\ c_pc = "links"
    /\ CanDescend(c_cur[2])
    /\ LET new_links == {l \in get_links(c_cur[1]) : l \notin c_visited /\ l \notin c_error}
       IN  \E order \in Orders(new_links) :
              c_queue' = Enqueue(c_queue, [k \in 1..Len(order) |-> <<order[k], c_cur[2] + 1>>])
    /\ c_pc' = "loop"
    /\ UNCHANGED <<c_graph, c_bad, c_maxd, c_base, c_visited, c_error, c_cur, c_content, c_fetches>>
    /\ UNCHANGED crOthers

\* the page is at max_depth or gave no content: its links are not read
CrNoDescend ==
    /\ c_pc = "links"
    /\ ~CanDescend(c_cur[2])
    /\ c_pc' = "loop"
    /\ UNCHANGED <<c_graph, c_bad, c_maxd, c_base, c_queue, c_visited, c_error, c_cur, c_content, c_fetches>>
    /\ UNCHANGED crOthers

\* the queue is empty: self.driver.quit(), "Scraping complete!"
CrFinish ==
    /\ c_pc = "loop"
    /\ c_queue = <<>>
    /\ c_pc' = "done"
    /\ UNCHANGED <<c_graph, c_bad, c_maxd, c_base, c_queue, c_visited, c_error, c_cur, c_content, c_fetches>>
    /\ UNCHANGED crOthers

CrawlNext ==
    \/ CrSkip
    \/ CrVisit
    \/ CrEnqueue
    \/ CrNoDescend
    \/ CrFinish

SpecCrawl == InitCrawl /\ [][CrawlNext]_vars

\* scrape is straight-line code in one thread: a step that can be taken is
\* taken
SpecCrawlLive == SpecCrawl /\ WF_vars(CrawlNext)

\* ------------------------------------------------------------------------
\* scrape_bccampus_pdfs: the counters of the summary
\* ------------------------------------------------------------------------

\* Number of books the subject page lists.
NumBooks == 3

\* What happens to a book:
\*   goto_error   page.goto(book_url) raises
\*   exists       save_path exists
\*   no_link      the page has no PDF link element
\*   no_capture   the click triggers no PDF request
\*   downloaded   download_pdf returns True
\*   dl_failed    download_pdf returns False and the line is appended to
\*                download_errors.log
\*   dl_failed_log_error
\*                download_pdf returns False and aiofiles.open(error_log,
\*                'a') raises
BookCases == {"goto_error", "exists", "no_link", "no_capture", "downloaded",
              "dl_failed", "dl_failed_log_error"}

ZeroStats == [total_books |-> 0, successful |-> 0, failed |-> 0, skipped |-> 0]

InitSummary ==
    /\ CoreIdle /\ AuxIdle /\ WkIdle /\ NmIdle /\ EgIdle /\ PgIdle /\ CrIdle
    /\ b_books \in [1..NumBooks -> BookCases]
    /\ b_stats = ZeroStats
    /\ b_idx = 0
    /\ b_pc = "subject"

\* the book at b_idx is counted under key and the loop goes to the next book
BookCounted(key) ==
    /\ b_stats' = [b_stats EXCEPT ![key] = @ + 1]
    /\ b_idx' = b_idx + 1
    /\ b_pc' = "book"

\* the subject page is read: stats['total_books'] += len(book_urls)
BkSubject ==
    /\ b_pc = "subject"
    /\ b_stats' = [b_stats EXCEPT !.total_books = @ + NumBooks]
    /\ b_idx' = 1
    /\ b_pc' = "book"
    /\ UNCHANGED b_books
    /\ UNCHANGED smOthers

\* an exception before the download: "Error processing book", failed += 1
BkGotoError ==
    /\ b_pc = "book" /\ b_idx <= NumBooks
    /\ b_books[b_idx] = "goto_error"
    /\ BookCounted("failed")
    /\ UNCHANGED b_books
    /\ UNCHANGED smOthers

\* "Already exists": skipped += 1
BkExists ==
    /\ b_pc = "book" /\ b_idx <= NumBooks
    /\ b_books[b_idx] = "exists"
    /\ BookCounted("skipped")
    /\ UNCHANGED b_books
    /\ UNCHANGED smOthers

\* "No PDF link element found" / "Could not capture PDF URL": failed += 1
BkNoPdf ==
    /\ b_pc = "book" /\ b_idx <= NumBooks
    /\ b_books[b_idx] \in {"no_link", "no_capture"}
    /\ BookCounted("failed")
    /\ UNCHANGED b_books
    /\ UNCHANGED smOthers

\* download_pdf returned True: successful += 1
BkDownloaded ==
    /\ b_pc = "book" /\ b_idx <= NumBooks
    /\ b_books[b_idx] = "downloaded"
    /\ BookCounted("successful")
    /\ UNCHANGED b_books
    /\ UNCHANGED smOthers

\* download_pdf returned False: failed += 1, then the error log is opened
BkDownloadFailed ==
    /\ b_pc = "book" /\ b_idx <= NumBooks
    /\ b_books[b_idx] \in {"dl_failed", "dl_failed_log_error"}
    /\ b_stats' = [b_stats EXCEPT !.failed = @ + 1]
    /\ b_pc' = "log"
    /\ UNCHANGED <<b_idx, b_books>>
    /\ UNCHANGED smOthers

\* the line is written to download_errors.log
BkLogWritten ==
    /\ b_pc = "log"
    /\ b_books[b_idx] = "dl_failed"
    /\ b_idx' = b_idx + 1
    /\ b_pc' = "book"
    /\ UNCHANGED <<b_books, b_stats>>
    /\ UNCHANGED smOthers

\* aiofiles.open or f.write raises: the handler of the book's try runs:
\* "Error processing book", failed += 1
BkLogRaises ==
    /\ b_pc = "log"
    /\ b_books[b_idx] = "dl_failed_log_error"
    /\ BookCounted("failed")
    /\ UNCHANGED b_books
    /\ UNCHANGED smOthers

\* the books are exhausted: the summary is printed
BkFinish ==
    /\ b_pc = "book"
    /\ b_idx > NumBooks
    /\ b_pc' = "done"
    /\ UNCHANGED <<b_idx, b_books, b_stats>>
    /\ UNCHANGED smOthers

SummaryNext ==
    \/ BkSubject
    \/ BkGotoError
    \/ BkExists
    \/ BkNoPdf
    \/ BkDownloaded
    \/ BkDownloadFailed
    \/ BkLogWritten
    \/ BkLogRaises
    \/ BkFinish

SpecSummary == InitSummary /\ [][SummaryNext]_vars

\* ------------------------------------------------------------------------
\* The retry loops: BC Campus download_pdf and the loop of Army
\* download_single_pdf
\* ------------------------------------------------------------------------

\* What a request of download_pdf meets: status 200 with a body that starts
\* with %PDF, status 200 with another body, status 403, 404, another status
\* (500), asyncio.TimeoutError, another exception (aiofiles.open and f.write
\* are inside the try too).
BcOutcomes == {"pdf", "not_pdf", "403", "404", "500", "timeout", "error"}

\* What a round of download_single_pdf meets: download_with_playwright
\* returns True, returns False, raises.
ArmyOutcomes == {"ok", "fail", "raise"}

InitRetry ==
    /\ DlAlone
    /\ \/ d_kind = "bccampus" /\ d_resp \in [1..max_retries -> BcOutcomes]
       \/ d_kind = "army" /\ d_resp \in [1..max_retries -> ArmyOutcomes]
    /\ d_pc = "loop"
    /\ d_attempt = 0
    /\ d_requests = 0
    /\ d_sleeps = <<>>
    /\ d_saved = FALSE
    /\ d_ret = "none"

\* what the request of the current round meets
DlOutcome == d_resp[d_attempt + 1]

IsPermanent_Never(o) == FALSE

\* the statuses with a return False of their own
IsPermanent(o) == o \in {"403", "404"}

\* the final else of the status test and the two except clauses
IsRetried(o) == o \notin {"pdf", "not_pdf"} /\ ~IsPermanent(o)

\* a round of download_pdf starts: session.get is called
DlRound ==
    /\ d_kind = "bccampus"
    /\ d_pc = "loop"
    /\ d_attempt < max_retries
    /\ d_requests' = d_requests + 1

DlReturn(v) ==
    /\ d_pc' = "ret"
    /\ d_ret' = v
    /\ UNCHANGED <<d_kind, d_attempt, d_resp, d_sleeps>>
    /\ UNCHANGED dlOthers

\* status 200, content[:4] == b'%PDF': the file is written, return True
DlSave ==
    /\ DlRound
    /\ DlOutcome = "pdf"
    /\ d_saved' = TRUE
    /\ DlReturn("True")

\* status 200, not a PDF: return False
DlNotPdf ==
    /\ DlRound
    /\ DlOutcome = "not_pdf"
    /\ UNCHANGED d_saved
    /\ DlReturn("False")

\* status 403 or 404: return False
DlPermanent ==
    /\ DlRound
    /\ IsPermanent(DlOutcome)
    /\ UNCHANGED d_saved
    /\ DlReturn("False")

\* attempt < max_retries - 1: asyncio.sleep(2 ** attempt), continue
DlRetry ==
    /\ DlRound
    /\ IsRetried(DlOutcome)
    /\ d_attempt < max_retries - 1
    /\ d_sleeps' = Append(d_sleeps, 2 ^ d_attempt)
    /\ d_attempt' = d_attempt + 1
    /\ UNCHANGED <<d_kind, d_pc, d_resp, d_saved, d_ret>>
    /\ UNCHANGED dlOthers

\* the last attempt: return False
DlLastFailed ==
    /\ DlRound
    /\ IsRetried(DlOutcome)
    /\ d_attempt = max_retries - 1
    /\ UNCHANGED d_saved
    /\ DlReturn("False")

\* a round of download_single_pdf starts: download_with_playwright is called
RetryRound ==
    /\ d_kind = "army"
    /\ d_pc = "loop"
    /\ d_attempt < max_retries
    /\ d_requests' = d_requests + 1

\* success: _save_tracking(pdf_url, True, ...), return True
RetryOk ==
    /\ RetryRound
    /\ DlOutcome = "ok"
    /\ d_saved' = TRUE
    /\ DlReturn("True")

\* the else branch and the except clause: asyncio.sleep(3), next round
RetryFailed ==
    /\ RetryRound
    /\ DlOutcome \in {"fail", "raise"}
    /\ d_sleeps' = Append(d_sleeps, 3)
    /\ d_attempt' = d_attempt + 1
    /\ UNCHANGED <<d_kind, d_pc, d_resp, d_saved, d_ret>>
    /\ UNCHANGED dlOthers

\* the loop is exhausted: _save_tracking(pdf_url, False, ...), return False
RetryExhausted ==
    /\ d_kind = "army"
    /\ d_pc = "loop"
    /\ d_attempt = max_retries
    /\ UNCHANGED <<d_requests, d_saved>>
    /\ DlReturn("False")

RetryNext ==
    \/ DlSave
    \/ DlNotPdf
    \/ DlPermanent
    \/ DlRetry
    \/ DlLastFailed
    \/ RetryOk
    \/ RetryFailed
    \/ RetryExhausted

SpecRetry == InitRetry /\ [][RetryNext]_vars

SpecRetryLive == SpecRetry /\ WF_vars(RetryNext)

\* ------------------------------------------------------------------------
\* Handlers on the shared page: download_with_route, download_via_response
\* (GAO) and the request listener of scrape_bccampus_pdfs
\* ------------------------------------------------------------------------

\* Number of work items processed on the page.
IcItems == 4

\* "route": page.route(pdf_url, handle_route) ... page.unroute(pdf_url)
\* "response": page.on('response', ...) ... page.remove_listener(...)
\* "request": page.on("request", ...) ... page.remove_listener(...)
Interceptors == {"route", "response", "request"}

\* strategies whose navigation sits in a try of its own with "pass"
GotoGuarded == {"route", "request"}

InitIntercept ==
    /\ IcAlone
    /\ i_pc = "start"
    /\ i_item = 1
    /\ i_strategy = "none"
    /\ i_handlers = {}

\* the strategy returns: the next work item is processed on the same page
IcReturn ==
    /\ i_pc' = "start"
    /\ i_item' = i_item + 1
    /\ UNCHANGED i_strategy

\* page.route / page.on: the handler of this item is registered
IcRegister ==
    /\ i_pc = "start"
    /\ i_item <= IcItems
    /\ \E s \in Interceptors : i_strategy' = s
    /\ i_handlers' = i_handlers \union {<<i_item, i_strategy'>>}
    /\ i_pc' = "registered"
    /\ UNCHANGED i_item
    /\ UNCHANGED icOthers

\* page.goto / pdf_link.click returns
IcNavigate ==
    /\ i_pc = "registered"
    /\ i_pc' = "navigated"
    /\ UNCHANGED <<i_item, i_strategy, i_handlers>>
    /\ UNCHANGED icOthers

\* page.goto / pdf_link.click raises, inside a try with "pass"
IcNavigateRaisesGuarded ==
    /\ i_pc = "registered"
    /\ i_strategy \in GotoGuarded
    /\ i_pc' = "navigated"
    /\ UNCHANGED <<i_item, i_strategy, i_handlers>>
    /\ UNCHANGED icOthers

\* page.goto raises in download_via_response: the except clause of the
\* function returns False
IcNavigateRaises ==
    /\ i_pc = "registered"
    /\ i_strategy \notin GotoGuarded
    /\ IcReturn
    /\ UNCHANGED i_handlers
    /\ UNCHANGED icOthers

\* page.unroute / page.remove_listener, then the function returns
IcRemove ==
    /\ i_pc = "navigated"
    /\ i_handlers' = i_handlers \ {<<i_item, i_strategy>>}
    /\ IcReturn
    /\ UNCHANGED icOthers

\* no work item is left
IcFinish ==
    /\ i_pc = "start"
    /\ i_item > IcItems
    /\ i_pc' = "done"
    /\ UNCHANGED <<i_item, i_strategy, i_handlers>>
    /\ UNCHANGED icOthers

InterceptNext ==
    \/ IcRegister
    \/ IcNavigate
    \/ IcNavigateRaisesGuarded
    \/ IcNavigateRaises
    \/ IcRemove
    \/ IcFinish

SpecIntercept == InitIntercept /\ [][InterceptNext]_vars

\* ------------------------------------------------------------------------
\* VA download_single_pdf / VDL download_single_document: Playwright, then
\* curl
\* ------------------------------------------------------------------------

InitCurl ==
    /\ VaAlone
    /\ v_pc = "loop"
    /\ v_retry = 0
    /\ v_outs \in [1..max_retries -> {"ok", "fail", "raise"}]
    /\ v_curl \in {"ok", "fail"}
    /\ v_curls = 0
    /\ v_rec = "none"
    /\ v_ret = "none"

IsFinalRound_Any(r) == TRUE

\* retry == max_retries - 1
IsFinalRound(r) == r = max_retries - 1

\* download_with_playwright is called in a round of the loop
VaRound(out) ==
    /\ v_pc = "loop"
    /\ v_retry < max_retries
    /\ v_outs[v_retry + 1] = out

\* _save_tracking(pdf_url, success) and the return
VaRecord(ok) ==
    /\ v_rec' = ok
    /\ v_ret' = ok
    /\ v_pc' = "ret"
    /\ UNCHANGED <<v_retry, v_outs, v_curl, v_curls>>
    /\ UNCHANGED vaOthers

\* asyncio.sleep(3) and the next round
VaNextRound ==
    /\ v_retry' = v_retry + 1
    /\ v_pc' = "loop"
    /\ UNCHANGED <<v_outs, v_curl, v_curls, v_rec, v_ret>>
    /\ UNCHANGED vaOthers

VaPlaywrightOk ==
    /\ VaRound("ok")
    /\ VaRecord("True")

\* an exception in the round: the except clause, no curl
VaPlaywrightRaises ==
    /\ VaRound("raise")
    /\ VaNextRound

\* Playwright returned False before the last round
VaPlaywrightFailed ==
    /\ VaRound("fail")
    /\ ~IsFinalRound(v_retry)
    /\ VaNextRound

\* Playwright returned False in the last round: download_with_curl is called
VaCurlCall ==
    /\ VaRound("fail")
    /\ IsFinalRound(v_retry)
    /\ v_curls' = v_curls + 1
    /\ v_pc' = "curl"
    /\ UNCHANGED <<v_retry, v_outs, v_curl, v_rec, v_ret>>
    /\ UNCHANGED vaOthers

VaCurlOk ==
    /\ v_pc = "curl"
    /\ v_curl = "ok"
    /\ VaRecord("True")

VaCurlFailed ==
    /\ v_pc = "curl"
    /\ v_curl = "fail"
    /\ VaNextRound

\* all retries failed: _save_tracking(pdf_url, False), return False
VaExhausted ==
    /\ v_pc = "loop"
    /\ v_retry >= max_retries
    /\ VaRecord("False")

CurlNext ==
    \/ VaPlaywrightOk
    \/ VaPlaywrightRaises
    \/ VaPlaywrightFailed
    \/ VaCurlCall
    \/ VaCurlOk
    \/ VaCurlFailed
    \/ VaExhausted

SpecCurl == InitCurl /\ [][CurlNext]_vars

\* ------------------------------------------------------------------------
\* HealthMil download_file_direct
\* ------------------------------------------------------------------------

\* Number of document titles.
NumTitles == 2

\* Number of calls of download_file_direct.
MaxDirectCalls == 4

Titles == 1..NumTitles

InitDirect ==
    /\ HmAlone
    /\ h_files \in SUBSET {<<t, 0>> : t \in Titles}
    /\ h_stats = [downloaded |-> 0, skipped |-> 0, errors |-> 0]
    /\ h_calls = 0
    /\ h_last = 0

\* "Handle duplicates": counter after the while loop; the loop runs once for
\* title.ext and once for every title_k.ext that exists in sequence
RECURSIVE CounterFrom(_, _)
CounterFrom(t, counter) ==
    IF <<t, counter>> \in h_files THEN CounterFrom(t, counter + 1) ELSE counter + 1

DupCounter(t) == IF <<t, 0>> \in h_files THEN CounterFrom(t, 1) ELSE 1

\* filepath after the loop: title.ext, or title_k.ext with k = counter - 1
DupPath(t) == <<t, DupCounter(t) - 1>>

\* os.path.exists(original_filepath) and counter == 1
SkipsExisting(t) == <<t, 0>> \in h_files /\ DupCounter(t) = 1

HmCall(t) ==
    /\ h_calls < MaxDirectCalls
    /\ h_calls' = h_calls + 1
    /\ h_last' = t
    /\ UNCHANGED hmOthers

\* the call returns True: skipped, or downloaded to filepath
HmDownload ==
    \E t \in Titles :
        /\ HmCall(t)
        /\ IF SkipsExisting(t)
           THEN /\ h_stats' = [h_stats EXCEPT !.skipped = @ + 1]
                /\ UNCHANGED h_files
           ELSE /\ h_files' = h_files \union {DupPath(t)}
                /\ h_stats' = [h_stats EXCEPT !.downloaded = @ + 1]

\* session.get or raise_for_status raises: errors += 1, return False
HmError ==
    \E t \in Titles :
        /\ HmCall(t)
        /\ ~SkipsExisting(t)
        /\ h_stats' = [h_stats EXCEPT !.errors = @ + 1]
        /\ UNCHANGED h_files

DirectNext ==
    \/ HmDownload
    \/ HmError

SpecDirect == InitDirect /\ [][DirectNext]_vars

\* ------------------------------------------------------------------------
\* split_sheet
\* ------------------------------------------------------------------------

\* Largest number of data rows of a sheet.
MaxRows == 24

\* Largest estimated_chunk_size (the smallest is min_rows).
MaxEstimate == 12

\* the 10 of "min_chunk = 10", "max(10, ...)" and "Using 10 rows"
min_rows == 10

Min(a, b) == IF a <= b THEN a ELSE b

InitSplit ==
    /\ SpAlone
    /\ s_total \in 1..MaxRows
    /\ s_fit \in 1..MaxRows
    /\ s_est \in min_rows..MaxEstimate
    /\ s_pc = "loop"
    /\ s_start = 0
    /\ s_min = 0
    /\ s_max = 0
    /\ s_chunk = 0
    /\ s_final = FALSE
    /\ s_temp = <<>>
    /\ s_out = <<>>

\* get_file_size_mb(temp_output) <= max_size_mb, for a size that grows with
\* the number of rows
Fits(rows) == rows[2] - rows[1] <= s_fit

\* "while start_row < total_rows": the binary search of a segment is set up
SpBegin ==
    /\ s_pc = "loop"
    /\ s_start < s_total
    /\ s_chunk' = s_est
    /\ s_final' = FALSE
    /\ s_min' = min_rows
    /\ s_max' = Min(s_est * 2, s_total - s_start)
    /\ s_temp' = <<>>
    /\ s_pc' = "search"
    /\ UNCHANGED <<s_total, s_fit, s_est, s_start, s_out>>
    /\ UNCHANGED spOthers

\* a step of the binary search: chunk_size, and the rows written to the
\* segment's _temp file
SpProbe(rows) ==
    /\ s_pc = "search"
    /\ s_min <= s_max
    /\ s_chunk' = (s_min + s_max) \div 2
    /\ rows = <<s_start, Min(s_start + s_chunk', s_total)>>
    /\ UNCHANGED <<s_pc, s_total, s_fit, s_est, s_start, s_out>>
    /\ UNCHANGED spOthers

\* the file fits: a final_output kept before is removed (it is the same path
\* as temp_output), final_output = temp_output
SpProbeFits ==
    \E rows \in (0..MaxRows) \X (0..MaxRows) :
        /\ SpProbe(rows)
        /\ Fits(rows)
        /\ s_temp' = IF s_final THEN <<>> ELSE rows
        /\ s_final' = TRUE
        /\ s_min' = s_chunk' + 1
        /\ UNCHANGED s_max

\* the file is too large: os.remove(temp_output)
SpProbeTooBig ==
    \E rows \in (0..MaxRows) \X (0..MaxRows) :
        /\ SpProbe(rows)
        /\ ~Fits(rows)
        /\ s_temp' = <<>>
        /\ s_max' = s_chunk' - 1
        /\ UNCHANGED <<s_final, s_min>>

\* the segment is complete: start_row = end_row
SpSegment(end_row, rows) ==
    /\ s_pc = "search"
    /\ s_min > s_max
    /\ s_out' = Append(s_out, [start_row |-> s_start, end_row |-> end_row, rows |-> rows])
    /\ s_start' = end_row
    /\ s_pc' = "loop"
    /\ UNCHANGED <<s_total, s_fit, s_est, s_min, s_max, s_chunk, s_final, s_temp>>
    /\ UNCHANGED spOthers

\* final_output is None: "Using 10 rows"
SpFallback ==
    /\ ~s_final
    /\ SpSegment(Min(s_start + min_rows, s_total), <<s_start, Min(s_start + min_rows, s_total)>>)

\* os.rename(final_output, final_name); end_row = start_row + chunk_size
SpRename ==
    /\ s_final
    /\ s_temp # <<>>
    /\ SpSegment(s_start + s_chunk, s_temp)

\* os.rename raises FileNotFoundError: final_output does not exist
SpRenameRaises ==
    /\ s_pc = "search"
    /\ s_min > s_max
    /\ s_final
    /\ s_temp = <<>>
    /\ s_pc' = "raised"
    /\ UNCHANGED <<s_total, s_fit, s_est, s_start, s_min, s_max, s_chunk, s_final, s_temp, s_out>>
    /\ UNCHANGED spOthers

\* "return segments_created"
SpFinish ==
    /\ s_pc = "loop"
    /\ s_start >= s_total
    /\ s_pc' = "done"
    /\ UNCHANGED <<s_total, s_fit, s_est, s_start, s_min, s_max, s_chunk, s_final, s_temp, s_out>>
    /\ UNCHANGED spOthers

SplitNext ==
    \/ SpBegin
    \/ SpProbeFits
    \/ SpProbeTooBig
    \/ SpFallback
    \/ SpRename
    \/ SpRenameRaises
    \/ SpFinish

SpecSplit == InitSplit /\ [][SplitNext]_vars

\* ------------------------------------------------------------------------
\* compress.py: process_directory
\* ------------------------------------------------------------------------

\* Number of documents of the directory.
NumPdfs == 2

\* A file name is <<d, m>>: document d, m = TRUE for "<stem>-minimal.pdf".
PdfNames == (1..NumPdfs) \X BOOLEAN

IsMinimal_Never(name) == FALSE

\* "-minimal" in pdf_file.stem
IsMinimal(name) == name[2]

\* output_file = pdf_file.parent / f"{pdf_file.stem}-minimal.pdf"
OutputOf(name) == <<name[1], TRUE>>

\* Contents: "orig" a document, "min" its text-only version, "other" a file
\* of a "-minimal" name that was not made from the document beside it.
InitCompress ==
    /\ CpAlone
    /\ k_dir \in [PdfNames -> {"none", "orig", "min", "other"}]
    /\ \A n \in PdfNames : IF n[2] THEN k_dir[n] # "orig" ELSE k_dir[n] \in {"none", "orig"}
    /\ k_delete \in BOOLEAN
    /\ k_pc = "start"
    /\ k_run = 1
    /\ k_list = <<>>
    /\ k_idx = 0
    /\ k_snap = k_dir
    /\ k_clean = TRUE

pdf_file == k_list[k_idx]

\* pdf_files = list(directory.glob("*.pdf")), in the order of the listing
CpGlob ==
    /\ k_pc = "start"
    /\ k_list' \in Orders({n \in PdfNames : k_dir[n] # "none"})
    /\ k_idx' = 1
    /\ k_pc' = "loop"
    /\ UNCHANGED <<k_run, k_delete, k_dir, k_snap, k_clean>>
    /\ UNCHANGED cpOthers

CpNextFile(clean) ==
    /\ k_idx' = k_idx + 1
    /\ k_pc' = "loop"
    /\ k_clean' = (k_clean /\ (clean \/ k_run > 1))
    /\ UNCHANGED <<k_run, k_delete, k_list, k_snap>>
    /\ UNCHANGED cpOthers

\* "Skipping (already minimal)"
CpSkipMinimal ==
    /\ k_pc = "loop" /\ k_idx <= Len(k_list)
    /\ IsMinimal(pdf_file)
    /\ UNCHANGED k_dir
    /\ CpNextFile(TRUE)

\* create_minimal_pdf returns True: output_file is written
CpConvert ==
    /\ k_pc = "loop" /\ k_idx <= Len(k_list)
    /\ ~IsMinimal(pdf_file)
    /\ k_dir' = [k_dir EXCEPT ![OutputOf(pdf_file)] = "min"]
    /\ k_pc' = "converted"
    /\ UNCHANGED <<k_run, k_delete, k_list, k_idx, k_snap, k_clean>>
    /\ UNCHANGED cpOthers

\* create_minimal_pdf returns False: failed += 1
CpConvertFails ==
    /\ k_pc = "loop" /\ k_idx <= Len(k_list)
    /\ ~IsMinimal(pdf_file)
    /\ UNCHANGED k_dir
    /\ CpNextFile(FALSE)

\* pdf_file.unlink()
CpDelete ==
    /\ k_pc = "converted"
    /\ k_delete
    /\ k_dir' = [k_dir EXCEPT ![pdf_file] = "none"]
    /\ CpNextFile(TRUE)

\* pdf_file.unlink() raises: "Failed to delete original"
CpDeleteFails ==
    /\ k_pc = "converted"
    /\ k_delete
    /\ UNCHANGED k_dir
    /\ CpNextFile(FALSE)

\* "Original kept"
CpKeep ==
    /\ k_pc = "converted"
    /\ ~k_delete
    /\ UNCHANGED k_dir
    /\ CpNextFile(TRUE)

\* the loop is over ("Processing complete!") and process_directory is run
\* again on the directory
CpRunAgain ==
    /\ k_pc = "loop" /\ k_idx > Len(k_list)
    /\ k_run = 1
    /\ k_run' = 2
    /\ k_snap' = k_dir
    /\ k_pc' = "start"
    /\ UNCHANGED <<k_delete, k_dir, k_list, k_idx, k_clean>>
    /\ UNCHANGED cpOthers

\* the second run is over
CpFinish ==
    /\ k_pc = "loop" /\ k_idx > Len(k_list)
    /\ k_run = 2
    /\ k_pc' = "done"
    /\ UNCHANGED <<k_run, k_delete, k_dir, k_list, k_idx, k_snap, k_clean>>
    /\ UNCHANGED cpOthers

CompressNext ==
    \/ CpGlob
    \/ CpSkipMinimal
    \/ CpConvert
    \/ CpConvertFails
    \/ CpDelete
    \/ CpDeleteFails
    \/ CpKeep
    \/ CpRunAgain
    \/ CpFinish

SpecCompress == InitCompress /\ [][CompressNext]_vars

\* ------------------------------------------------------------------------
\* USMC generate_filename and the output paths of a run
\* ------------------------------------------------------------------------

Digits == {"0", "1", "2", "3", "4", "5", "6", "7", "8", "9"}

ArticlePrefix == <<"/", "A", "r", "t", "i", "c", "l", "e", "/">>

\* re.search(r'/Article/(\d+)/([^/]+)', publication_url): group 1 of the
\* leftmost match, "unknown" without a match
ArticleId(url) ==
    LET n == Len(ArticlePrefix)
        DigitsEnd(i) == CHOOSE j \in (i - 1)..Len(url) :
                            /\ \A k \in i..j : url[k] \in Digits
                            /\ (j = Len(url) \/ url[j + 1] \notin Digits)
        Matches(i) == /\ SubSeq(url, i, i + n - 1) = ArticlePrefix
                      /\ DigitsEnd(i + n) >= i + n
                      /\ DigitsEnd(i + n) + 2 <= Len(url)
                      /\ url[DigitsEnd(i + n) + 1] = "/"
                      /\ url[DigitsEnd(i + n) + 2] # "/"
        starts == {i \in 1..Len(url) : i + n - 1 <= Len(url) /\ Matches(i)}
    IN  IF starts = {}
        THEN <<"u", "n", "k", "n", "o", "w", "n">>
        ELSE LET i == CHOOSE x \in starts : \A y \in starts : x <= y
             IN  SubSeq(url, i + n, DigitsEnd(i + n))

\* MarineCorpsPublicationScraper.generate_filename
usmc_generate_filename(pdf_url, publication_url) ==
    LET base == CleanName(BeforeFirst(Basename(pdf_url), "?"))
        name == IF EndsWith(Lower(base), DotPdf) THEN base ELSE base \o DotPdf
    IN  ArticleId(publication_url) \o <<"_">> \o name

UsmcPdfUrls ==
    { <<"p", "/", "x", ".", "p", "d", "f">>,
      <<"q", "/", "x", ".", "p", "d", "f">>,
      <<"p", "/", "x", ".", "p", "d", "f", "?", "v", "=", "2">>,
      <<"p", "/", "y", ".", "P", "D", "F">>,
      <<"p", "/", "z">> }

UsmcPublications ==
    { <<"/", "A", "r", "t", "i", "c", "l", "e", "/", "7", "/", "m">>,
      <<"/", "A", "r", "t", "i", "c", "l", "e", "/", "1", "2", "/", "n">>,
      <<"/", "N", "e", "w", "s", "/", "7">> }

UsmcLinks == [pdf_url : UsmcPdfUrls, publication_url : UsmcPublications]

UsmcPaths == {usmc_generate_filename(l.pdf_url, l.publication_url) : l \in UsmcLinks}

\* Number of PDF links of a run.
NumLinks == 2

InitPaths ==
    /\ FnAlone
    /\ f_items \in [1..NumLinks -> UsmcLinks]
    /\ \A i, j \in 1..NumLinks : i # j => f_items[i].pdf_url # f_items[j].pdf_url
    /\ f_idx = 1
    /\ f_disk = [p \in UsmcPaths |-> <<>>]
    /\ f_rec = [u \in UsmcPdfUrls |-> "none"]
    /\ f_pc = "loop"

f_url == f_items[f_idx].pdf_url

f_path == usmc_generate_filename(f_items[f_idx].pdf_url, f_items[f_idx].publication_url)

\* download_single_pdf is entered for a link with no success record
FnCall ==
    /\ f_pc = "loop"
    /\ f_idx <= NumLinks
    /\ f_rec[f_url] # "True"

\* _save_tracking(pdf_url, success), return; the next link
FnRecord(ok) ==
    /\ f_rec' = [f_rec EXCEPT ![f_url] = ok]
    /\ f_idx' = f_idx + 1
    /\ UNCHANGED <<f_pc, f_items>>
    /\ UNCHANGED fnOthers

\* "File already exists": _save_tracking(pdf_url, True)
FnFileExists ==
    /\ FnCall
    /\ f_disk[f_path] # <<>>
    /\ UNCHANGED f_disk
    /\ FnRecord("True")

\* a round of the retry loop succeeds: the file holds the content of pdf_url
FnDownloaded ==
    /\ FnCall
    /\ f_disk[f_path] = <<>>
    /\ f_disk' = [f_disk EXCEPT ![f_path] = f_url]
    /\ FnRecord("True")

\* all rounds fail: _save_tracking(pdf_url, False)
FnFailed ==
    /\ FnCall
    /\ f_disk[f_path] = <<>>
    /\ UNCHANGED f_disk
    /\ FnRecord("False")

FnFinish ==
    /\ f_pc = "loop"
    /\ f_idx > NumLinks
    /\ f_pc' = "done"
    /\ UNCHANGED <<f_items, f_idx, f_disk, f_rec>>
    /\ UNCHANGED fnOthers

PathsNext ==
    \/ FnFileExists
    \/ FnDownloaded
    \/ FnFailed
    \/ FnFinish

SpecPaths == InitPaths /\ [][PathsNext]_vars

\* ------------------------------------------------------------------------
\* Properties
\* ------------------------------------------------------------------------

\* C1: when download_single_pdf is called for a URL whose record in
\* self.downloaded_files has success = true, the call returns True in one
\* step: no round of download_with_playwright is started, no network
\* operation is performed, and the records, the tracking file and the output
\* directory are left as they were.
C1_IdempotentAcquire ==
    [][ (pc = "dsp" /\ downloaded_files[cur_url] = "ok" /\ pc' # "stopped") =>
           /\ pc' = "loop"
           /\ result' = "True"
           /\ rounds' = 0
           /\ net' = {}
           /\ UNCHANGED <<downloaded_files, tracking_file, disk>> ]_vars

\* C1, witness: a restarted process has returned from a call through the
\* "Already successfully downloaded" branch.
C1_Witness ==
    /\ run > 1
    /\ pc = "loop"
    /\ via = "already"
    /\ result = "True"
    /\ idx > 1
    /\ downloaded_files[Docs[idx - 1].url] = "ok"

\* C3: a call never runs more than max_retries rounds of
\* download_with_playwright; it gives up only after exactly max_retries
\* rounds, all of which returned False; and a call that gives up sets the
\* record of its URL to failed and returns False.
C3_RetryCap ==
    /\ [](rounds <= max_retries)
    /\ []((via = "failed") => (rounds = max_retries /\ ~success))
    /\ [][ (via = "failed" /\ pc \in {"save", "save_dump"} /\ pc' = "loop") =>
              (result' = "False" /\ downloaded_files'[cur_url] = "failed") ]_vars
    /\ [][ (pc = "dsp_ret" /\ ~success /\ rounds < max_retries /\ pc' # "stopped") =>
              pc' = "dwp_session" ]_vars

\* C3, witness: a call has returned False after max_retries rounds.
C3_Witness ==
    /\ pc = "loop"
    /\ via = "failed"
    /\ result = "False"
    /\ rounds = max_retries
    /\ idx > 1
    /\ downloaded_files[Docs[idx - 1].url] = "failed"


\* the documents handed to download_single_pdf
Handed == {i \in DOMAIN Docs : ~IsProblematic(Docs[i].url)}

\* the file at path p is a prefix of the body that was being written
IsPartial(f) == f # NoFile /\ f.size < f.full

\* the file is absent, or a completely written PDF above the threshold
AbsentOrSound(f) == f = NoFile \/ (~IsPartial(f) /\ f.pdf /\ f.size > MinSize)

C5_ValidatorBoundary ==
    ((pc = "dsp_ret" /\ success) \/ (pc = "save" /\ save_arg)) =>
        /\ disk[cur_path] # NoFile
        /\ disk[cur_path].pdf
        /\ disk[cur_path].size > MinSize

\* C6: no file of the output directory is ever partially written or not
\* validated, and no call accepts a partially written file as an existing
\* artifact.
C6_AtomicWrite ==
    /\ \A p \in Paths : disk[p] = NoFile \/ (~IsPartial(disk[p]) /\ ExistsAndBig(disk[p]))
    /\ via = "exists" => ~IsPartial(disk[cur_path])

\* C7: a call returns at once as already done only if the record of its URL
\* is Success and the file at its output path exists and is larger than 1000
\* bytes; with a Success record and no such file the call downloads again.
C7_DualCheck ==
    /\ [][ (pc = "dsp" /\ pc' = "loop") =>
              (downloaded_files[cur_url] = "ok" /\ ExistsAndBig(disk[cur_path])) ]_vars
    /\ [][ (pc = "dsp" /\ pc' # "stopped" /\ downloaded_files[cur_url] = "ok"
               /\ ~ExistsAndBig(disk[cur_path])) => pc' = "dwp_session" ]_vars

\* the tracking store as a call of get(url) sees it: the dictionary of the
\* running process, and the tracking file when no process runs
StoreView == IF Running THEN downloaded_files ELSE LoadTracking(tracking_file)

\* C8: once the record of a URL is Success (here: and a completed write of
\* the tracking file held it), no step changes it to Failed or removes it.
C8_SuccessSticky ==
    [][ \A u \in Urls :
           (StoreView[u] = "ok" /\ persisted[u] = "ok") => StoreView'[u] = "ok" ]_vars

\* C9: a restart loads at least every record that a completed write of the
\* tracking file held.
C9_Durable ==
    [][ (~Running /\ pc' = "loop") =>
           \A u \in Urls : persisted[u] # "absent" => downloaded_files'[u] # "absent" ]_vars

\* C4 (as stated): a later method is tried exactly when the one before it
\* failed or raised, so a report whose in-page fetch fails and whose route
\* interception would deliver the PDF is acquired by route interception.
C4_FallbackOrdering ==
    (g_pc = "done" /\ g_fetch.kind # "body" /\ g_route.kind = "body")
        => (g_ret = "True" /\ g_tried = <<"fetch", "route">>)

\* C10 (as stated): interleaved updates of the store lose no record: once
\* every process has finished, each URL a process recorded has a record in
\* the tracking file.
C10_NoLostUpdate ==
    (\A i \in Procs : p_pc[i] = "done")
        => \A i \in Procs : \A u \in p_wrote[i] :
              LoadTracking(tracking_file)[u] # "absent"

\* C11 (as stated): of two concurrent calls of download_single_pdf for one
\* URL, at most one at a time is between passing the already-done and
\* file-exists checks and recording the outcome.
C11_PerUrlExclusion ==
    Cardinality({i \in Procs : w_pc[i] \in {"download", "ret"}}) <= 1

C13_CleanupOnFailure ==
    [][ (via = "failed" /\ pc \in {"save", "save_dump"} /\ pc' = "loop") =>
           (disk'[cur_path] = NoFile /\ downloaded_files'[cur_url] = "failed") ]_vars

\* C14 (as stated): when the tracking file cannot be written while the
\* outcome of an item is being recorded, the call does not return True as if
\* the outcome had been recorded.
C14_WriteFailureSurfaced ==
    [][ (pc \in {"save", "save_dump"} /\ pc' = "loop"
            /\ ~(tracking_file'.valid /\ tracking_file'.recs[cur_url] = downloaded_files'[cur_url]))
           => result' # "True" ]_vars

\* C15 (as stated): an exception raised while one publication is processed
\* ends only that publication: when the run is over, every publication of
\* the listing has been processed.
C15_ErrorContained ==
    (e_pc = "done") => \A i \in 1..EngItems : e_out[i] # "pending"

\* C16 (as stated): whatever the configuration and whatever the listing
\* pages yield, the pagination loop stops.
C16_PaginationStops == <>(u_pc = "done")

\* C17: no page is extracted at a depth above max_depth; the links of a page
\* at depth max_depth are not enqueued (no queue entry is deeper than
\* max_depth, and the step after the extraction of such a page leaves the
\* queue as it is); and the crawl ends, whatever the link graph.
C17_DepthBoundAndTermination ==
    /\ [](c_pc = "links" => c_cur[2] <= c_maxd)
    /\ [](\A k \in DOMAIN c_queue : c_queue[k][2] <= c_maxd)
    /\ [][ (c_pc = "links" /\ c_cur[2] >= c_maxd) => c_queue' = c_queue ]_vars
    /\ <>(c_pc = "done")

\* C17, witness: a crawl of a graph with a cycle (a links to b, b links back
\* to a) has ended after it extracted b, with content and links, at depth
\* max_depth.
C17_Witness ==
    /\ c_pc = "done"
    /\ c_maxd = 1
    /\ <<"b">> \in c_graph[<<"a">>]
    /\ <<"a","/">> \in c_graph[<<"b">>]
    /\ c_bad = {}
    /\ c_fetches[<<"b">>] = 1

C19_ResumeFromCursor ==
    /\ [][ (pc = "stopped" /\ pc' = "loop") =>
              \A u \in Urls : persisted[u] # "absent" => downloaded_files'[u] = persisted[u] ]_vars
    /\ []((resumed /\ run = 2 /\ pc = "dsp") => persisted[cur_url] = "absent")

\* C20 (as stated): when the summary is printed, every book found has been
\* counted exactly once: successful + failed + skipped = total_books.
C20_NoSilentDrops ==
    (b_pc = "done") =>
        b_stats.successful + b_stats.failed + b_stats.skipped = b_stats.total_books

\* C21: in download_pdf a 403 or 404 response ends the call with False and
\* that request is the last one; another non-200 status, a timeout or another
\* exception before the last attempt leads to the next attempt; at most
\* max_retries requests are issued and the call returns.
C21_PermanentNotRetried ==
    /\ [][ (d_kind = "bccampus" /\ d_pc = "loop" /\ d_resp[d_attempt + 1] \in {"403", "404"})
           => (d_pc' = "ret" /\ d_ret' = "False" /\ d_requests' = d_requests + 1) ]_vars
    /\ [][ (d_kind = "bccampus" /\ d_pc = "loop" /\ d_attempt < max_retries - 1
            /\ d_resp[d_attempt + 1] \in {"500", "timeout", "error"})
           => (d_pc' = "loop" /\ d_attempt' = d_attempt + 1) ]_vars
    /\ [](d_kind = "bccampus" => d_requests <= max_retries)
    /\ [](d_kind = "bccampus" /\ d_pc = "ret" /\ d_requests > 1
            => d_resp[d_requests - 1] \in {"500", "timeout", "error"})
    /\ (d_kind = "bccampus" => <>(d_pc = "ret"))

C21_Witness ==
    /\ d_kind = "bccampus" /\ d_pc = "ret" /\ d_ret = "False"
    /\ d_resp[1] = "timeout" /\ d_resp[2] = "403" /\ d_requests = 2

\* C22 (as stated): a body rejected by validation (status 200, no %PDF
\* signature) before the last attempt does not end the call: the loop goes
\* on to its remaining attempts.
C22_ValidationRetried ==
    [][ (d_kind = "bccampus" /\ d_pc = "loop" /\ d_attempt < max_retries - 1
         /\ d_resp[d_attempt + 1] = "not_pdf")
        => d_pc' # "ret" ]_vars

\* C25 (as stated): the waits between rounds grow exponentially (each is
\* twice the one before) and no wait follows the final round, so a call
\* sleeps fewer than max_retries times.
C25_BackoffGrows ==
    /\ Len(d_sleeps) < max_retries
    /\ \A i \in DOMAIN d_sleeps :
          (i + 1) \in DOMAIN d_sleeps => d_sleeps[i + 1] = 2 * d_sleeps[i]

\* C23 (as stated): when a work item starts on the shared page, no handler
\* of an earlier work item is registered.
C23_InterceptorsRemoved == (i_pc \in {"start", "done"}) => i_handlers = {}

\* C24: within one call curl is invoked at most once, only in the round
\* retry = max_retries - 1 and only after download_with_playwright returned
\* False in that round; when curl succeeds the call records success and
\* returns True.
C24_CurlLastRoundOnly ==
    /\ [](v_curls <= 1)
    /\ [](v_pc = "curl" => (v_retry = max_retries - 1 /\ v_outs[v_retry + 1] = "fail"))
    /\ [][ v_curls' # v_curls => (v_pc = "loop" /\ v_pc' = "curl") ]_vars
    /\ [][ (v_pc = "curl" /\ v_curl = "ok")
           => (v_pc' = "ret" /\ v_rec' = "True" /\ v_ret' = "True") ]_vars

C24_Witness ==
    /\ v_pc = "ret" /\ v_ret = "True" /\ v_rec = "True" /\ v_curls = 1
    /\ v_outs = <<"raise", "fail", "fail">>

\* C26 (as stated): a call of download_file_direct for a title whose file
\* exists writes no file and counts the document as skipped.
C26_SkipIfExists ==
    [][ (h_calls' # h_calls /\ <<h_last', 0>> \in h_files)
        => (h_files' = h_files /\ h_stats'.skipped = h_stats.skipped + 1) ]_vars

\* C27 (as stated): the file kept by the binary search exists when it is
\* renamed, and the segments, in order, hold every row exactly once: each
\* segment's file holds the rows start_row .. end_row reported for it, the
\* first starts at row 0, each starts where the one before ended and the
\* last ends at total_rows.
C27_SplitPartitions ==
    /\ s_pc # "raised"
    /\ \A k \in DOMAIN s_out :
          /\ s_out[k].rows = <<s_out[k].start_row, s_out[k].end_row>>
          /\ s_out[k].start_row = (IF k = 1 THEN 0 ELSE s_out[k - 1].end_row)
    /\ s_pc = "done" => (s_out # <<>> /\ s_out[Len(s_out)].end_row = s_total)

C29_SuccessOwnContent ==
    f_pc # "idle" =>
        \A i \in 1..NumLinks :
            f_rec[f_items[i].pdf_url] = "True"
               => f_disk[usmc_generate_filename(f_items[i].pdf_url, f_items[i].publication_url)]
                     = f_items[i].pdf_url

\* the links followed from a page: those of a page whose content was
\* extracted
LinksFollowed(url) == IF normalize_url(url) \in c_bad THEN {} ELSE get_links(url)

\* the URLs with a link path of at most k links from the base URL
RECURSIVE WithinLinks(_)
WithinLinks(k) ==
    IF k = 0
    THEN {c_base}
    ELSE LET W == WithinLinks(k - 1) IN W \cup UNION {LinksFollowed(u) : u \in W}

\* the length of the shortest link path from the base URL; more than
\* MaxDepthCfg for a URL with no path of at most MaxDepthCfg links
LinkDistance(url) ==
    IF url \in WithinLinks(MaxDepthCfg)
    THEN CHOOSE k \in 0..MaxDepthCfg :
            url \in WithinLinks(k) /\ (k = 0 \/ url \notin WithinLinks(k - 1))
    ELSE MaxDepthCfg + 1

\* C30: every URL is extracted at the depth that is the length of its
\* shortest link path from the base URL through pages whose content was
\* extracted, and when the scrape is complete every URL with such a path of
\* at most max_depth links has been visited.
C30_BreadthFirstMinimalDepth ==
    /\ [][ (c_pc = "loop" /\ c_pc' = "links") => c_cur'[2] = LinkDistance(c_cur'[1]) ]_vars
    /\ [](c_pc = "done" =>
            \A u \in CrawlUrls : LinkDistance(u) <= c_maxd => u \in c_visited)

\* a page with a path of one link and a path of two links has been extracted
\* at depth 1, the longer path having put it in the queue a second time
C30_Witness ==
    /\ c_pc = "done" /\ c_maxd = 2 /\ c_bad = {}
    /\ c_base = <<"a">>
    /\ c_graph[<<"a">>] = {<<"b">>, <<"c","#","t">>}
    /\ <<"c","#","t">> \in c_graph[<<"b">>]
    /\ c_fetches[<<"c">>] = 1 /\ c_fetches[<<"b">>] = 1

====
